---- MODULE Spec2Model ----
(***************************************************************************)
(* Asynchronous execution pipeline of agentic-qa: the run queue (Redis     *)
(* stream "runs:queue" read through the consumer group "run-workers"),     *)
(* the per-run event log (stream "run_events:{run_id}"), the persisted     *)
(* run record (table test_runs), the worker loop of scripts/run_worker.py  *)
(* with its retry loop and its stuck-run recovery task, and the engine     *)
(* AgentExecutor.execute_test of app/agent/executor.py.                    *)
(*                                                                         *)
(* Every await of the code is one step of the process that performs it.    *)
(* A call to the store or to the queue either succeeds or raises; an       *)
(* exception is transient (_is_transient_error is true of it) or           *)
(* permanent.                                                              *)
(***************************************************************************)
EXTENDS Integers, Sequences, FiniteSets, TLC

\* ------------------------------------------------------------ bounds
\* Worker processes reading the queue (each with its own consumer name).
MaxWorkers == 2
\* Runs created by POST /test/run.
MaxRuns == 2
\* Tests created by POST /tests.
MaxTests == 2
\* Steps of the longest test definition.
MaxSteps == 1
\* Store/queue calls that raise, over the whole behaviour.
MaxFaults == 1
\* Steps of the longest test definition the engine is run on by itself.
MaxEngineSteps == 3
\* Events of the longest log handed to read_run_events.
MaxLog == 3
\* The largest count handed to read_run_events.
MaxCount == 2
\* Times the SSE client goes away in the middle of a connection.
MaxDrops == 1
\* Jobs enqueued by the clients of the queue functions.
MaxQueue == 3
\* Requests PUT /tests/{id} and DELETE /tests/{id} for tests that have runs.
MaxEdits == 1

\* ------------------------------------------------- program constants
\* range(3) in the worker's retry loop.
RetryAttempts == 3
\* count: int = 100, the default of read_run_events, which the stream uses.
ReadCount == 100

Workers == 1..MaxWorkers
RunIds == 1..MaxRuns
TestIds == 1..MaxTests

VARIABLES
    api,       \* the API's requests: each run's POST /test/run, the edits of tests
    tests,     \* tests: test id -> the test's row (kind none: never created)
    db,        \* test_runs: run id -> its row (status absent: the table has no row)
    events,    \* run_events:{run_id}: run id -> sequence of events, in id order
    queue,     \* runs:queue: the entries in XADD order, each the run id of its job
    delivered, \* the group's last-delivered entry (0: none)
    pel,       \* the group's pending entries: <<entry, consumer>>
    worker,    \* worker -> the state of its main loop and of the engine it runs
    sweep,     \* worker -> the state of its recovery task
    shutdown,  \* worker -> shutdown_event.is_set()
    faults,    \* calls that may still raise
    stream,    \* an SSE client of run 1 and its connection to /results/{run_id}/stream
    call       \* one call of a function of the code: its arguments and its result

vars == <<api, tests, db, events, queue, delivered, pel, worker, sweep, shutdown,
          faults, stream, call>>

\* ------------------------------------------------------------ values
\* What the SELECT of process_job finds for a run's test: no row (the test
\* was deleted after the run was created), or a definition. Of a definition
\* are kept the steps before the first element that is no dict, up to n of
\* them, of each whether _validate_step accepts it, and junk: whether there
\* is such an element (a number or a string among the steps, or a 'steps'
\* that is no list: POST and PUT /tests take any dict for a definition).
TestRowsUpTo(n) ==
    {[kind |-> "notfound", steps |-> << >>, junk |-> FALSE]}
        \cup {[kind |-> "found", steps |-> s, junk |-> j] :
                  s \in UNION {[1..k -> BOOLEAN] : k \in 0..n}, j \in BOOLEAN}

TestRows == TestRowsUpTo(MaxSteps)

NoTest == [kind |-> "none", steps |-> << >>, junk |-> FALSE]

\* The test's row is gone.
DeletedTest == [kind |-> "notfound", steps |-> << >>, junk |-> FALSE]

\* FirstInvalid, were only the first step validated before the run starts.
FirstInvalid_FirstStepOnly(steps) ==
    IF steps # << >> /\ ~steps[1] THEN 0 ELSE -1

\* The validation loop of execute_test: the index of the first step that
\* _validate_step rejects, -1 when it accepts them all.
FirstInvalid(steps) ==
    IF \E k \in 1..Len(steps) : ~steps[k]
    THEN (CHOOSE k \in 1..Len(steps) :
              ~steps[k] /\ \A j \in 1..(k - 1) : steps[j]) - 1
    ELSE -1

\* The path process_job and execute_test take for a test row. The
\* validation loop returns at the first step _validate_step rejects, and
\* raises (TypeError, AttributeError) when it comes to what is no dict.
PathOf(t) ==
    IF t.kind = "notfound" THEN "notfound"
    ELSE IF t.steps = << >> /\ ~t.junk THEN "nosteps"
    ELSE IF FirstInvalid(t.steps) # -1 THEN "invalid"
    ELSE IF t.junk THEN "malformed"
    ELSE "valid"

ExcKinds == {"transient", "permanent"}

\* _is_transient_error(exc)
IsTransientError(exc) == exc = "transient"

Event(type, msg) == [type |-> type, msg |-> msg]

\* append_run_event: XADD at the end of the run's stream; the entry's id is
\* its position.
AppendRunEvent(log, type, msg) == Append(log, Event(type, msg))

IsTerminalEvent(e) == e.type \in {"complete", "error"}

HasTerminal(log) == \E k \in 1..Len(log) : IsTerminalEvent(log[k])

\* The number of terminal events of a log.
TerminalCount(log) == Cardinality({k \in 1..Len(log) : IsTerminalEvent(log[k])})

TerminalStatus == {"passed", "failed"}

\* error_step, step_results and screenshots are NULL (-1, empty) until a
\* write sets them.
NoRun ==
    [status |-> "absent", started |-> "null", error |-> "none", errorStep |-> -1,
     stepResults |-> << >>, screenshots |-> << >>]

\* A worker at the top of its main loop before its first job. job, attempt,
\* lastExc are the locals msg_id/run_id, attempt, last_exc of main; raised
\* counts the attempts of the job in which process_job raised, calls the
\* calls of process_job for the job, delay is the last backoff sleep (0:
\* none yet); steps is the definition process_job read and handed to the
\* engine; path, nsteps, i, finalError are the engine's locals; terms
\* counts the terminal events the current call of process_job appended;
\* failedStep and results are the engine's failed_step (-1: None) and
\* step_results, browser whether the call launched a browser, late whether
\* the total-run deadline has passed; shots is the engine's screenshots (the
\* step of each) and captures counts its calls of _capture_screenshot;
\* result is what execute_action returned for the step of the current pass
\* of the loop, pending the text of an exception on its way through the
\* finally clause of the try block to its except clause; dbClosed and
\* redisClosed tell whether main closed the pool and the Redis connection.
IdleWorker ==
    [pc |-> "loop", job |-> 0, attempt |-> 0, lastExc |-> "none", raised |-> 0,
     calls |-> 0, delay |-> 0,
     steps |-> << >>,
     path |-> "none", nsteps |-> 0, i |-> 0, finalError |-> "none", terms |-> 0,
     failedStep |-> -1, results |-> << >>, browser |-> FALSE, late |-> FALSE,
     shots |-> << >>, captures |-> 0,
     result |-> [status |-> "none", error |-> "none"], pending |-> "none",
     dbClosed |-> FALSE, redisClosed |-> FALSE]

\* The engine's locals once process_job is over.
EngineDone(wr) ==
    [wr EXCEPT !.steps = << >>, !.path = "none", !.nsteps = 0, !.i = 0, !.finalError = "none",
               !.terms = 0, !.failedStep = -1, !.results = << >>,
               !.browser = FALSE, !.late = FALSE, !.shots = << >>, !.captures = 0,
               !.result = [status |-> "none", error |-> "none"], !.pending = "none"]

\* A recovery task before the loop test of its first pass, or asleep between
\* two passes; exc tells whether the task ended with an exception.
IdleSweep == [pc |-> "wait", rows |-> {}, cur |-> 0, exc |-> FALSE]

\* An SSE client that has not connected yet. pc is the position of the
\* connection's event_generator, lastId and batch its locals last_id and
\* events (what is left of them), yielded the ids the connection yielded;
\* recv is what the client received over all its connections, connected
\* whether the client still listens, drops the times it went away.
IdleStream ==
    [pc |-> "idle", lastId |-> 0, batch |-> << >>, yielded |-> << >>,
     recv |-> << >>, connected |-> FALSE, drops |-> 0]

\* No function call is looked at.
NoCall == [fn |-> "none"]

\* No request was made: run is the position of each run's POST /test/run
\* (none: not made; insert: the SELECT found the test and the INSERT is
\* next; xadd: the INSERT is done and enqueue_run is next; done: the request
\* is over), test is the test_id of each run's request, which the run's row
\* and its job carry (0: none yet), edits counts the PUT and DELETE requests.
NoApi == [run |-> [r \in RunIds |-> "none"], test |-> [r \in RunIds |-> 0], edits |-> 0]

\* The state after construction, but for the function call.
InitBase(budget) ==
    /\ api = NoApi
    /\ tests = [t \in TestIds |-> NoTest]
    /\ db = [r \in RunIds |-> NoRun]
    /\ events = [r \in RunIds |-> << >>]
    /\ queue = << >>
    /\ delivered = 0
    /\ pel = {}
    /\ worker = [w \in Workers |-> IdleWorker]
    /\ sweep = [w \in Workers |-> IdleSweep]
    /\ shutdown = [w \in Workers |-> FALSE]
    /\ faults = budget
    /\ stream = IdleStream

InitWith(budget) == InitBase(budget) /\ call = NoCall

Init == InitWith(MaxFaults)

\* A call raises: one of the calls that may still raise is used up.
Raises == faults > 0 /\ faults' = faults - 1

\* The run of the job a worker holds.
RunOf(w) == queue[worker[w].job]

\* The terminal events this step appends to run r's log.
Appended(r) == TerminalCount(events'[r]) - TerminalCount(events[r])

\* ------------------------------------------------------------ the API
\* The table has a row for run r.
HasRow(r) == db[r].status # "absent"

\* UPDATE test_runs SET ... WHERE id = r: the row becomes row when the table
\* has one for r, and nothing is written otherwise.
UpdateRun(r, row) == IF HasRow(r) THEN [db EXCEPT ![r] = row] ELSE db

\* The test of run r: the test_id of the request that made the run.
TestOf(r) == api.test[r]

\* POST /tests with a definition of T: the test's row is inserted under a
\* fresh id. An INSERT that raises writes nothing.
CreateTest(Ts, T) ==
    \E t \in Ts :
        /\ tests[t].kind = "none"
        /\ \A q \in TestIds : q < t => tests[q].kind # "none"
        /\ \E row \in T : row.kind = "found" /\ tests' = [tests EXCEPT ![t] = row]
        /\ UNCHANGED <<api, db, events, queue, delivered, pel, worker, sweep, shutdown,
                       faults, stream, call>>

\* POST /test/run for a test of Ts, its first await: the SELECT finds the
\* test's row and the INSERT is next. A request for a test that does not
\* exist (any more) is answered 404 and one whose SELECT raises 500: the
\* request is over and nothing was written.
RunSelect(R, Ts) ==
    \E r \in R :
        /\ api.run[r] = "none"
        /\ \A q \in RunIds : q < r => api.run[q] # "none"
        /\ \/ /\ \E t \in Ts :
                    /\ tests[t].kind = "found"
                    /\ api' = [api EXCEPT !.run[r] = "insert", !.test[r] = t]
              /\ UNCHANGED faults
           \/ /\ \E t \in Ts : tests[t].kind # "found"
              /\ api' = [api EXCEPT !.run[r] = "done"]
              /\ UNCHANGED faults
           \/ /\ Raises
              /\ api' = [api EXCEPT !.run[r] = "done"]
        /\ UNCHANGED <<tests, db, events, queue, delivered, pel, worker, sweep, shutdown,
                       stream, call>>

\* POST /test/run, its second await: the run's row is inserted as queued.
\* When the test was deleted since the SELECT the INSERT violates the
\* foreign key of test_runs and raises; an INSERT that raises writes
\* nothing and ends the request.
RunInsert(R) ==
    \E r \in R :
        /\ api.run[r] = "insert"
        /\ \/ /\ tests[TestOf(r)].kind = "found"
              /\ db' = [db EXCEPT ![r] = [NoRun EXCEPT !.status = "queued"]]
              /\ api' = [api EXCEPT !.run[r] = "xadd"]
              /\ UNCHANGED faults
           \/ /\ tests[TestOf(r)].kind # "found"
              /\ api' = [api EXCEPT !.run[r] = "done"]
              /\ UNCHANGED <<db, faults>>
           \/ /\ tests[TestOf(r)].kind = "found"
              /\ Raises
              /\ api' = [api EXCEPT !.run[r] = "done"]
              /\ UNCHANGED db
        /\ UNCHANGED <<tests, events, queue, delivered, pel, worker, sweep, shutdown,
                       stream, call>>

\* POST /test/run, its third await: enqueue_run. When the XADD raises the
\* row stays without a job.
RunEnqueue(R) ==
    \E r \in R :
        /\ api.run[r] = "xadd"
        /\ \/ /\ queue' = Append(queue, r)
              /\ UNCHANGED faults
           \/ /\ Raises
              /\ UNCHANGED queue
        /\ api' = [api EXCEPT !.run[r] = "done"]
        /\ UNCHANGED <<tests, db, events, delivered, pel, worker, sweep, shutdown,
                       stream, call>>

\* The requests for the runs of R, each for a test of Ts.
RunTestWith(R, Ts) == RunSelect(R, Ts) \/ RunInsert(R) \/ RunEnqueue(R)

\* DELETE /tests/{id} for a test of Ts: the test's row is deleted and, the
\* foreign key of test_runs being ON DELETE CASCADE, the rows of all its
\* runs with it, whatever their status; the runs' jobs and events stay
\* where they are.
DeleteTest(Ts) ==
    \E t \in Ts :
        /\ tests[t].kind = "found"
        /\ api.edits < MaxEdits
        /\ tests' = [tests EXCEPT ![t] = DeletedTest]
        /\ db' = [r \in RunIds |-> IF TestOf(r) = t THEN NoRun ELSE db[r]]
        /\ api' = [api EXCEPT !.edits = @ + 1]
        /\ UNCHANGED <<events, queue, delivered, pel, worker, sweep, shutdown, faults,
                       stream, call>>

\* PUT /tests/{id} with a definition, for a test of Ts: the row's definition
\* becomes another one of T, for every run of the test that reads it later.
UpdateTest(Ts, T) ==
    \E t \in Ts :
        /\ tests[t].kind = "found"
        /\ api.edits < MaxEdits
        /\ \E row \in T :
              row.kind = "found" /\ row # tests[t] /\ tests' = [tests EXCEPT ![t] = row]
        /\ api' = [api EXCEPT !.edits = @ + 1]
        /\ UNCHANGED <<db, events, queue, delivered, pel, worker, sweep, shutdown, faults,
                       stream, call>>

\* The edits of the tests of Ts.
EditTest(Ts, T) == DeleteTest(Ts) \/ UpdateTest(Ts, T)

\* The tests the clients create, and their runs: any run is of any test.
CreateTests == CreateTest(TestIds, TestRows)

RunTestOf(R) == RunTestWith(R, TestIds)

RunTest == RunTestOf(RunIds)

\* One test and the one run a client asks for.
CreateTestOnce == CreateTest({1}, TestRows)

RunTestOnce == RunTestWith({1}, {1})

\* The edits of the tests.
EditTests == EditTest(TestIds, TestRows)

\* The edits of the first test.
EditTestOnce == EditTest({1}, TestRows)

\* ---------------------------------------------------------- the queue
\* Deliverable, were the read to return pending entries as well (a read
\* from id "0" instead of ">").
Deliverable_WithPending ==
    {e \in 1..Len(queue) : e > delivered \/ \E w \in Workers : <<e, w>> \in pel}

\* Deliverable, were the read to return the oldest entry that is pending for
\* no consumer, delivered before or not.
Deliverable_OldestUnheld ==
    LET free == {e \in 1..Len(queue) : \A w \in Workers : <<e, w>> \notin pel} IN
    IF free = {} THEN {} ELSE {CHOOSE e \in free : \A f \in free : e <= f}

\* Deliverable, were the read to return any entry never delivered, not the
\* oldest one.
Deliverable_AnyUndelivered == {e \in 1..Len(queue) : e > delivered}

\* The entries XREADGROUP with id ">" and count=1 can return: the first entry
\* never delivered to any consumer of the group, if there is one.
Deliverable ==
    IF delivered < Len(queue) THEN {delivered + 1} ELSE {}

\* The consumers an entry is pending for.
Holders(e) == {w \in Workers : <<e, w>> \in pel}

\* XACK: the entry leaves the pending list; a second XACK finds nothing.
Xack(e) == {p \in pel : p[1] # e}

\* ------------------------------------------------- the worker's retry loop
\* The test of the except block: retry after a transient error, unless this
\* was the last attempt or shutdown was requested.
RetryDecision(attempt, exc, shut) ==
    attempt < 2 /\ IsTransientError(exc) /\ ~shut

\* Backoff, were the delay not doubled.
Backoff_Constant(attempt) == 1

\* delay = 2**attempt: the seconds slept before the next attempt.
Backoff(attempt) == 2^attempt

\* AfterLoop, were the handler to run only for a failure of attempt 0 or 1.
AfterLoop_EarlyAttempts(wr) ==
    IF wr.lastExc # "none" /\ ~IsTransientError(wr.lastExc) /\ wr.attempt < 2
    THEN [EngineDone(wr) EXCEPT !.pc = "perm_event"]
    ELSE [EngineDone(wr) EXCEPT !.pc = "loop"]

\* The code after the retry loop, up to its first await: a permanent last
\* exception that the loop did not handle goes to the failure handler,
\* anything else back to the top of the main loop.
AfterLoop(wr) ==
    IF wr.lastExc # "none" /\ ~IsTransientError(wr.lastExc)
    THEN [EngineDone(wr) EXCEPT !.pc = "perm_event"]
    ELSE [EngineDone(wr) EXCEPT !.pc = "loop"]

\* Except, were the entry acknowledged after a failure that is not retried.
Except_AckAfterFailure(wr, exc, shut) ==
    LET wr1 == [EngineDone(wr) EXCEPT !.lastExc = exc,
                    !.raised = IF wr.pc = "ack" THEN @ ELSE @ + 1] IN
    IF RetryDecision(wr.attempt, exc, shut)
    THEN IF wr.attempt + 1 < RetryAttempts
         THEN [wr1 EXCEPT !.pc = "fetch", !.attempt = wr.attempt + 1,
                          !.calls = @ + 1, !.delay = Backoff(wr.attempt)]
         ELSE [wr1 EXCEPT !.pc = "exhausted_event"]
    ELSE [wr1 EXCEPT !.pc = "ack"]

\* The except block for an exception of kind exc raised by process_job or by
\* the XACK: either the next attempt starts (after the backoff sleep), or the
\* loop is left by break. The for loop's else clause runs only when range(3)
\* is used up without a break.
Except(wr, exc, shut) ==
    LET wr1 == [EngineDone(wr) EXCEPT !.lastExc = exc,
                    !.raised = IF wr.pc = "ack" THEN @ ELSE @ + 1] IN
    IF RetryDecision(wr.attempt, exc, shut)
    THEN IF wr.attempt + 1 < RetryAttempts
         THEN [wr1 EXCEPT !.pc = "fetch", !.attempt = wr.attempt + 1,
                          !.calls = @ + 1, !.delay = Backoff(wr.attempt)]
         ELSE [wr1 EXCEPT !.pc = "exhausted_event"]
    ELSE AfterLoop(wr1)

\* A call inside process_job, or the XACK, raises exc.
Throw(w, exc) ==
    /\ Raises
    /\ worker' = [worker EXCEPT ![w] = Except(worker[w], exc, shutdown[w])]

\* The top of the main loop: while not shutdown_event.is_set().
MainLoop(w) ==
    /\ worker[w].pc = "loop"
    /\ worker' = [worker EXCEPT ![w].pc =
                     IF shutdown[w] THEN "finally" ELSE "claim"]
    /\ UNCHANGED <<api, tests, db, events, queue, delivered, pel, sweep, shutdown, faults, stream, call>>

\* consume_run_job: a job is delivered and becomes pending for this consumer,
\* or the blocking read times out (the idle branch sleeps and loops), or the
\* read raises, which leaves the main loop through its finally clause.
ConsumeRunJob(w) ==
    /\ worker[w].pc = "claim"
    /\ \/ \E e \in Deliverable :
              /\ delivered' = IF e > delivered THEN e ELSE delivered
              /\ pel' = pel \cup {<<e, w>>}
              /\ worker' = [worker EXCEPT ![w] =
                               [IdleWorker EXCEPT !.pc = "fetch", !.job = e,
                                                  !.calls = 1]]
              /\ UNCHANGED faults
       \/ /\ Deliverable = {}
          /\ worker' = [worker EXCEPT ![w].pc = "loop"]
          /\ UNCHANGED <<delivered, pel, faults>>
       \/ /\ Raises
          /\ worker' = [worker EXCEPT ![w].pc = "finally"]
          /\ UNCHANGED <<delivered, pel>>
    /\ UNCHANGED <<api, tests, db, events, queue, sweep, shutdown, stream, call>>

\* process_job, first await: SELECT the test. execute_test reaches its first
\* await without another one between: an error event on the fail-fast
\* paths, the start log event otherwise; the validation loop of a malformed
\* definition raises out of process_job before any await, an exception that
\* is not transient.
ProcessJobFetch(w) ==
    /\ worker[w].pc = "fetch"
    /\ LET t == tests[TestOf(RunOf(w))] IN
       \/ /\ PathOf(t) = "malformed"
          /\ worker' = [worker EXCEPT ![w] = Except(worker[w], "permanent", shutdown[w])]
          /\ UNCHANGED faults
       \/ /\ PathOf(t) \in {"notfound", "nosteps", "invalid"}
          /\ worker' = [worker EXCEPT ![w].pc = "fail_event", ![w].path = PathOf(t),
                                      ![w].steps = t.steps,
                                      ![w].failedStep = FirstInvalid(t.steps)]
          /\ UNCHANGED faults
       \/ /\ PathOf(t) = "valid"
          /\ worker' = [worker EXCEPT ![w].pc = "start_event", ![w].steps = t.steps,
                                      ![w].path = "valid", ![w].nsteps = Len(t.steps)]
          /\ UNCHANGED faults
       \/ \E exc \in ExcKinds : Throw(w, exc)
    /\ UNCHANGED <<api, tests, db, events, queue, delivered, pel, sweep, shutdown, stream, call>>

\* The terminal events a fail-fast path appends before its record update.
FailFastEvents(log, msg) == AppendRunEvent(log, "error", msg)

\* An error event for the run, then on to the record update; the append may
\* raise out of process_job.
FailEvent(w, p) ==
    /\ worker[w].pc = "fail_event"
    /\ worker[w].path = p
    /\ \/ /\ events' = [events EXCEPT ![RunOf(w)] = FailFastEvents(@, p)]
          /\ worker' = [worker EXCEPT ![w].pc = "fail_db",
                                      ![w].terms = @ + Appended(RunOf(w))]
          /\ UNCHANGED faults
       \/ /\ \E exc \in ExcKinds : Throw(w, exc)
          /\ UNCHANGED events
    /\ UNCHANGED <<api, tests, db, queue, delivered, pel, sweep, shutdown, stream, call>>

\* UPDATE test_runs SET status = 'failed', error = ... (started_at is left as
\* it is; _update_db_failed also sets error_step, the UPDATE of process_job
\* does not); then process_job returns and the XACK is next.
FailDb(w, p) ==
    /\ worker[w].pc = "fail_db"
    /\ worker[w].path = p
    /\ \/ /\ db' = UpdateRun(RunOf(w),
                              [db[RunOf(w)] EXCEPT
                                   !.status = "failed",
                                   !.error = p,
                                   !.errorStep =
                                       IF p = "notfound" THEN @ ELSE worker[w].failedStep])
          /\ worker' = [worker EXCEPT ![w].pc = "ack"]
          /\ UNCHANGED faults
       \/ /\ \E exc \in ExcKinds : Throw(w, exc)
          /\ UNCHANGED db
    /\ UNCHANGED <<api, tests, events, queue, delivered, pel, sweep, shutdown, stream, call>>

\* process_job: the test row is missing.
NotFoundEvent(w) == FailEvent(w, "notfound")
NotFoundDb(w) == FailDb(w, "notfound")

\* execute_test: the definition has no steps.
NoStepsEvent(w) == FailEvent(w, "nosteps")
NoStepsDb(w) == FailDb(w, "nosteps")

\* execute_test: _validate_step rejects a step.
InvalidEvent(w) == FailEvent(w, "invalid")
InvalidDb(w) == FailDb(w, "invalid")

\* ------------------------------------------------- execute_test proper
\* status = "passed" if not final_error else "failed": final_error None and
\* final_error "" (an error whose text is empty) alike give passed.
FinalStatus(finalError) ==
    IF finalError = "none" \/ finalError = "empty" THEN "passed" ELSE "failed"

\* The start log event; the append is outside the try block and may raise out
\* of process_job.
StartEvent(w) ==
    /\ worker[w].pc = "start_event"
    /\ \/ /\ events' = [events EXCEPT ![RunOf(w)] = AppendRunEvent(@, "log", "start")]
          /\ worker' = [worker EXCEPT ![w].pc = "set_running"]
          /\ UNCHANGED faults
       \/ /\ \E exc \in ExcKinds : Throw(w, exc)
          /\ UNCHANGED events
    /\ UNCHANGED <<api, tests, db, queue, delivered, pel, sweep, shutdown, stream, call>>

\* UPDATE test_runs SET status = 'running', started_at = now.
SetRunning(w) ==
    /\ worker[w].pc = "set_running"
    /\ \/ /\ db' = UpdateRun(RunOf(w), [db[RunOf(w)] EXCEPT !.status = "running",
                                                            !.started = "fresh"])
          /\ worker' = [worker EXCEPT ![w].pc = "launch"]
          /\ UNCHANGED faults
       \/ /\ \E exc \in ExcKinds : Throw(w, exc)
          /\ UNCHANGED db
    /\ UNCHANGED <<api, tests, events, queue, delivered, pel, sweep, shutdown, stream, call>>

\* ResultLog, were the result of a failed step logged as an error event.
ResultLog_ErrorOnFailure(status) ==
    IF status = "failed" THEN Event("error", "step") ELSE Event("log", status)

\* The log event of a step's result: "Step completed" or "Step failed: ...",
\* of which the status is kept.
ResultLog(status) == Event("log", status)

\* The entry of step_results for step i, from what execute_action returned:
\* its status; strategy, self_healed and attempts are written as literals.
StepResult(i, result) ==
    [step |-> i, status |-> result.status, strategy |-> "selector",
     selfHealed |-> FALSE, attempts |-> 1]

\* What execute_action returns: status passed, or status failed with an
\* error, whose text may be empty (str(e) of an exception without a message).
ActionResults ==
    {[status |-> "passed", error |-> "none"],
     [status |-> "failed", error |-> "text"],
     [status |-> "failed", error |-> "empty"]}

\* final_error = result.get("error", "Step failed") of a failed step.
StepError(result) == IF result.error = "empty" THEN "empty" ELSE "step"

\* DeadlineExceeded, were the timeout attributed to the last step that ran.
DeadlineExceeded_PreviousStep(wr) ==
    [wr EXCEPT !.pc = "page_close", !.finalError = "timeout",
               !.failedStep = wr.i - 1, !.late = FALSE]

\* The deadline check at the top of the step loop found more than
\* TOTAL_TIMEOUT_SEC elapsed: final_error and failed_step = i are set and the
\* loop is left before step i; page.close() is the next await.
DeadlineExceeded(wr) ==
    [wr EXCEPT !.pc = "page_close", !.finalError = "timeout",
               !.failedStep = wr.i, !.late = FALSE]

\* The top of the step loop for step wr.i, up to the next await: after the
\* last step the loop is over and the page is closed; otherwise the deadline
\* is checked and the step's log event is next.
LoopTop(wr) ==
    IF wr.i = wr.nsteps THEN [wr EXCEPT !.pc = "page_close"]
    ELSE IF wr.late THEN DeadlineExceeded(wr)
    ELSE [wr EXCEPT !.pc = "executing"]

\* AfterStep, were the loop to go on after a failed step.
AfterStep_ContinueOnFailure(wr, result, shot) ==
    LoopTop([wr EXCEPT !.i = wr.i + 1,
                       !.finalError = IF result.status = "failed" THEN StepError(result) ELSE @,
                       !.failedStep = IF result.status = "failed" THEN wr.i ELSE @])

\* AfterStep, were a step without a screenshot treated as failed.
AfterStep_CaptureFailureFailsStep(wr, result, shot) ==
    IF result.status = "failed" \/ ~shot
    THEN [wr EXCEPT !.pc = "page_close", !.finalError = StepError(result),
                    !.failedStep = wr.i]
    ELSE LoopTop([wr EXCEPT !.i = wr.i + 1])

\* The end of a pass of the loop, after _capture_screenshot was called (shot:
\* it returned a screenshot, whose event was appended): a failed step sets
\* failed_step and final_error and leaves the loop, a passed one goes to the
\* top of the loop for the next step.
AfterStep(wr, result, shot) ==
    IF result.status = "failed"
    THEN [wr EXCEPT !.pc = "page_close", !.finalError = StepError(result),
                    !.failedStep = wr.i]
    ELSE LoopTop([wr EXCEPT !.i = wr.i + 1])

\* The except clause of the try block: final_error is the exception's text
\* str(e), which may be empty, whatever it was before; failed_step =
\* len(step_results) unless set. The terminal event is next.
CaughtException(wr, text) ==
    [wr EXCEPT !.pc = "complete_event",
               !.finalError = IF text = "empty" THEN "empty" ELSE "exception",
               !.failedStep = IF wr.failedStep = -1 THEN Len(wr.results) ELSE @,
               !.pending = "none"]

\* An await inside the inner try block raises: the finally clause closes the
\* browser before the exception gets to the except clause.
RaisedInTry(wr, text) == [wr EXCEPT !.pc = "browser_close", !.pending = text]

ExcTexts == {"text", "empty"}

\* The awaits of the try block, from the launch of the browser to its close.
TryBlock ==
    {"launch", "new_context", "new_page", "executing", "action", "result_event",
     "screenshot", "shot_event", "page_close", "context_close", "browser_close"}

\* Time passes: the run is now older than the total-run deadline. Nothing
\* of the engine reacts before its next check.
DeadlinePasses(w) ==
    /\ worker[w].pc \in {"launch", "new_context", "new_page", "executing", "action",
                         "result_event", "screenshot", "shot_event"}
    /\ ~worker[w].late
    /\ worker' = [worker EXCEPT ![w].late = TRUE]
    /\ UNCHANGED <<api, tests, db, events, queue, delivered, pel, sweep, shutdown, faults,
                   stream, call>>

\* async_playwright() and p.chromium.launch: an exception goes straight to
\* the except clause, no browser being there to close.
Launch(w) ==
    /\ worker[w].pc = "launch"
    /\ \/ /\ worker' = [worker EXCEPT ![w].pc = "new_context", ![w].browser = TRUE]
          /\ UNCHANGED faults
       \/ \E text \in ExcTexts :
              /\ Raises
              /\ worker' = [worker EXCEPT ![w] = CaughtException(worker[w], text)]
    /\ UNCHANGED <<api, tests, db, events, queue, delivered, pel, sweep, shutdown, stream, call>>

\* browser.new_context
NewContext(w) ==
    /\ worker[w].pc = "new_context"
    /\ \/ /\ worker' = [worker EXCEPT ![w].pc = "new_page"]
          /\ UNCHANGED faults
       \/ \E text \in ExcTexts :
              /\ Raises
              /\ worker' = [worker EXCEPT ![w] = RaisedInTry(worker[w], text)]
    /\ UNCHANGED <<api, tests, db, events, queue, delivered, pel, sweep, shutdown, stream, call>>

\* context.new_page, then the top of the loop for step 0.
NewPage(w) ==
    /\ worker[w].pc = "new_page"
    /\ \/ /\ worker' = [worker EXCEPT ![w] = LoopTop(worker[w])]
          /\ UNCHANGED faults
       \/ \E text \in ExcTexts :
              /\ Raises
              /\ worker' = [worker EXCEPT ![w] = RaisedInTry(worker[w], text)]
    /\ UNCHANGED <<api, tests, db, events, queue, delivered, pel, sweep, shutdown, stream, call>>

\* The log event "Executing ..." of step i.
ExecutingEvent(w) ==
    /\ worker[w].pc = "executing"
    /\ \/ /\ events' = [events EXCEPT ![RunOf(w)] = AppendRunEvent(@, "log", "executing")]
          /\ worker' = [worker EXCEPT ![w].pc = "action"]
          /\ UNCHANGED faults
       \/ \E text \in ExcTexts :
              /\ Raises
              /\ worker' = [worker EXCEPT ![w] = RaisedInTry(worker[w], text)]
              /\ UNCHANGED events
    /\ UNCHANGED <<api, tests, db, queue, delivered, pel, sweep, shutdown, stream, call>>

\* execute_action returns the step's result, which is appended to
\* step_results. What the page raises is caught by the handlers and returned
\* as a failure; a handler raises itself on a step whose target, expected or
\* selector is no string (AttributeError of .strip()).
ExecuteAction(w) ==
    /\ worker[w].pc = "action"
    /\ \/ \E res \in ActionResults :
              worker' = [worker EXCEPT ![w].pc = "result_event",
                                       ![w].result = res,
                                       ![w].results = Append(@, StepResult(worker[w].i, res))]
       \/ worker' = [worker EXCEPT ![w] = RaisedInTry(worker[w], "text")]
    /\ UNCHANGED <<api, tests, db, events, queue, delivered, pel, sweep, shutdown, faults,
                   stream, call>>

\* The log event of the step's result.
ResultEvent(w) ==
    /\ worker[w].pc = "result_event"
    /\ \/ /\ events' = [events EXCEPT ![RunOf(w)] =
                           Append(@, ResultLog(worker[w].result.status))]
          /\ worker' = [worker EXCEPT ![w].pc = "screenshot",
                                      ![w].terms = @ + Appended(RunOf(w))]
          /\ UNCHANGED faults
       \/ \E text \in ExcTexts :
              /\ Raises
              /\ worker' = [worker EXCEPT ![w] = RaisedInTry(worker[w], text)]
              /\ UNCHANGED events
    /\ UNCHANGED <<api, tests, db, queue, delivered, pel, sweep, shutdown, stream, call>>

\* _capture_screenshot: page.screenshot returns and the screenshot is kept,
\* its event being next, or it raises, which is caught, and the pass of the
\* loop ends without a screenshot.
CaptureScreenshot(w) ==
    /\ worker[w].pc = "screenshot"
    /\ \/ worker' = [worker EXCEPT ![w].pc = "shot_event",
                                   ![w].captures = @ + 1,
                                   ![w].shots = Append(@, worker[w].i)]
       \/ worker' = [worker EXCEPT ![w] =
                        AfterStep([worker[w] EXCEPT !.captures = @ + 1],
                                  worker[w].result, FALSE)]
    /\ UNCHANGED <<api, tests, db, events, queue, delivered, pel, sweep, shutdown, faults,
                   stream, call>>

\* The screenshot event, then the end of the pass.
ScreenshotEvent(w) ==
    /\ worker[w].pc = "shot_event"
    /\ \/ /\ events' = [events EXCEPT ![RunOf(w)] = AppendRunEvent(@, "screenshot", "shot")]
          /\ worker' = [worker EXCEPT ![w] = AfterStep(worker[w], worker[w].result, TRUE)]
          /\ UNCHANGED faults
       \/ \E text \in ExcTexts :
              /\ Raises
              /\ worker' = [worker EXCEPT ![w] = RaisedInTry(worker[w], text)]
              /\ UNCHANGED events
    /\ UNCHANGED <<api, tests, db, queue, delivered, pel, sweep, shutdown, stream, call>>

\* page.close() after the loop.
PageClose(w) ==
    /\ worker[w].pc = "page_close"
    /\ \/ /\ worker' = [worker EXCEPT ![w].pc = "context_close"]
          /\ UNCHANGED faults
       \/ \E text \in ExcTexts :
              /\ Raises
              /\ worker' = [worker EXCEPT ![w] = RaisedInTry(worker[w], text)]
    /\ UNCHANGED <<api, tests, db, events, queue, delivered, pel, sweep, shutdown, stream, call>>

\* context.close()
ContextClose(w) ==
    /\ worker[w].pc = "context_close"
    /\ \/ /\ worker' = [worker EXCEPT ![w].pc = "browser_close"]
          /\ UNCHANGED faults
       \/ \E text \in ExcTexts :
              /\ Raises
              /\ worker' = [worker EXCEPT ![w] = RaisedInTry(worker[w], text)]
    /\ UNCHANGED <<api, tests, db, events, queue, delivered, pel, sweep, shutdown, stream, call>>

\* browser.close() in the finally clause: after it the exception that led
\* here, if any, is caught by the except clause, and so is the exception of
\* a close that raises itself.
BrowserClose(w) ==
    /\ worker[w].pc = "browser_close"
    /\ \/ /\ worker' = [worker EXCEPT ![w] =
                           IF worker[w].pending = "none"
                           THEN [worker[w] EXCEPT !.pc = "complete_event"]
                           ELSE CaughtException(worker[w], worker[w].pending)]
          /\ UNCHANGED faults
       \/ \E text \in ExcTexts :
              /\ Raises
              /\ worker' = [worker EXCEPT ![w] = CaughtException(worker[w], text)]
    /\ UNCHANGED <<api, tests, db, events, queue, delivered, pel, sweep, shutdown, stream, call>>

\* The try block of execute_test.
ExecuteSteps(w) ==
    \/ Launch(w) \/ NewContext(w) \/ NewPage(w)
    \/ ExecutingEvent(w) \/ ExecuteAction(w) \/ ResultEvent(w)
    \/ CaptureScreenshot(w) \/ ScreenshotEvent(w)
    \/ PageClose(w) \/ ContextClose(w) \/ BrowserClose(w)

\* The terminal event of execute_test, type complete whatever the status; the
\* append is outside the try block.
CompleteEvent(w) ==
    /\ worker[w].pc = "complete_event"
    /\ \/ /\ events' = [events EXCEPT ![RunOf(w)] =
                           AppendRunEvent(@, "complete", FinalStatus(worker[w].finalError))]
          /\ worker' = [worker EXCEPT ![w].pc = "complete_db",
                                      ![w].terms = @ + Appended(RunOf(w))]
          /\ UNCHANGED faults
       \/ /\ \E exc \in ExcKinds : Throw(w, exc)
          /\ UNCHANGED events
    /\ UNCHANGED <<api, tests, db, queue, delivered, pel, sweep, shutdown, stream, call>>

\* _update_db_complete: status, error and the engine's own started_at in one
\* UPDATE; then execute_test and process_job return.
CompleteDb(w) ==
    /\ worker[w].pc = "complete_db"
    /\ \/ /\ db' = UpdateRun(RunOf(w),
                              [db[RunOf(w)] EXCEPT
                                   !.status = FinalStatus(worker[w].finalError),
                                   !.error = worker[w].finalError,
                                   !.errorStep = worker[w].failedStep,
                                   !.stepResults = worker[w].results,
                                   !.screenshots = worker[w].shots])
          /\ worker' = [worker EXCEPT ![w].pc = "ack"]
          /\ UNCHANGED faults
       \/ /\ \E exc \in ExcKinds : Throw(w, exc)
          /\ UNCHANGED db
    /\ UNCHANGED <<api, tests, events, queue, delivered, pel, sweep, shutdown, stream, call>>

\* ------------------------------------------- the worker after process_job
\* process_job returned: XACK the entry and break. An XACK that raises is
\* handled by the same except block as process_job.
Ack(w) ==
    /\ worker[w].pc = "ack"
    /\ \/ /\ pel' = Xack(worker[w].job)
          /\ worker' = [worker EXCEPT ![w] = AfterLoop(worker[w])]
          /\ UNCHANGED faults
       \/ /\ \E exc \in ExcKinds : Throw(w, exc)
          /\ UNCHANGED pel
    /\ UNCHANGED <<api, tests, db, events, queue, delivered, sweep, shutdown, stream, call>>

\* The handler after the loop for a permanent exception: the error event. An
\* append that raises here leaves main through its finally clause.
PermEvent(w) ==
    /\ worker[w].pc = "perm_event"
    /\ \/ /\ events' = [events EXCEPT ![RunOf(w)] = AppendRunEvent(@, "error", "exc")]
          /\ worker' = [worker EXCEPT ![w].pc = "perm_db"]
          /\ UNCHANGED faults
       \/ /\ Raises
          /\ worker' = [worker EXCEPT ![w].pc = "finally"]
          /\ UNCHANGED events
    /\ UNCHANGED <<api, tests, db, queue, delivered, pel, sweep, shutdown, stream, call>>

\* The handler's record update; what it raises is caught and logged. The
\* entry is not acknowledged.
PermDb(w) ==
    /\ worker[w].pc = "perm_db"
    /\ \/ /\ db' = UpdateRun(RunOf(w), [db[RunOf(w)] EXCEPT !.status = "failed",
                                                            !.error = "exc"])
          /\ UNCHANGED faults
       \/ /\ Raises
          /\ UNCHANGED db
    /\ worker' = [worker EXCEPT ![w].pc = "loop"]
    /\ UNCHANGED <<api, tests, events, queue, delivered, pel, sweep, shutdown, stream, call>>

\* The else clause of the retry loop (three attempts used up without a
\* break): the error event, then the record update.
ExhaustedEvent(w) ==
    /\ worker[w].pc = "exhausted_event"
    /\ \/ /\ events' = [events EXCEPT ![RunOf(w)] = AppendRunEvent(@, "error", "exc")]
          /\ worker' = [worker EXCEPT ![w].pc = "exhausted_db"]
          /\ UNCHANGED faults
       \/ /\ Raises
          /\ worker' = [worker EXCEPT ![w].pc = "finally"]
          /\ UNCHANGED events
    /\ UNCHANGED <<api, tests, db, queue, delivered, pel, sweep, shutdown, stream, call>>

ExhaustedDb(w) ==
    /\ worker[w].pc = "exhausted_db"
    /\ \/ /\ db' = UpdateRun(RunOf(w), [db[RunOf(w)] EXCEPT !.status = "failed",
                                                            !.error = "exc"])
          /\ worker' = [worker EXCEPT ![w].pc = "loop"]
          /\ UNCHANGED faults
       \/ /\ Raises
          /\ worker' = [worker EXCEPT ![w].pc = "finally"]
          /\ UNCHANGED db
    /\ UNCHANGED <<api, tests, events, queue, delivered, pel, sweep, shutdown, stream, call>>

\* handle_shutdown: SIGINT or SIGTERM sets the shutdown event.
HandleShutdown(w) ==
    /\ worker[w].pc \notin {"stopped", "crashed"}
    /\ ~shutdown[w]
    /\ shutdown' = [shutdown EXCEPT ![w] = TRUE]
    /\ UNCHANGED <<api, tests, db, events, queue, delivered, pel, worker, sweep, faults, stream, call>>

\* AfterCancel, were main to go on without waiting for the recovery task.
AfterCancel_NotAwaited(sw) == sw

\* The recovery task once main's await of it returns, after
\* recovery_task.cancel(): the CancelledError is thrown into the task at
\* the await it is suspended in, recover_stuck_runs_periodically catches
\* it and returns; a task that has ended already stays as it ended.
AfterCancel(sw) == [IdleSweep EXCEPT !.pc = "stopped", !.exc = sw.exc]

\* The finally clause of main, up to its first await that is not of the
\* recovery task: the task is cancelled and awaited. The exception of a
\* task that ended with one is raised again by the await and leaves main
\* before the connections are closed.
Finally(w) ==
    /\ worker[w].pc = "finally"
    /\ worker' = [worker EXCEPT ![w].pc =
                     IF sweep[w].exc THEN "stopped" ELSE "close_db"]
    /\ sweep' = [sweep EXCEPT ![w] = AfterCancel(sweep[w])]
    /\ UNCHANGED <<api, tests, db, events, queue, delivered, pel, shutdown, faults, stream, call>>

\* close_db(): the pool is closed; what it raises is caught and logged.
CloseDb(w) ==
    /\ worker[w].pc = "close_db"
    /\ \/ /\ worker' = [worker EXCEPT ![w].pc = "close_redis", ![w].dbClosed = TRUE]
          /\ UNCHANGED faults
       \/ /\ Raises
          /\ worker' = [worker EXCEPT ![w].pc = "close_redis"]
    /\ UNCHANGED <<api, tests, db, events, queue, delivered, pel, sweep, shutdown, stream, call>>

\* close_redis(): the Redis connection is closed; what it raises is caught
\* and logged. Then the process exits.
CloseRedis(w) ==
    /\ worker[w].pc = "close_redis"
    /\ \/ /\ worker' = [worker EXCEPT ![w].pc = "stopped", ![w].redisClosed = TRUE]
          /\ UNCHANGED faults
       \/ /\ Raises
          /\ worker' = [worker EXCEPT ![w].pc = "stopped"]
    /\ UNCHANGED <<api, tests, db, events, queue, delivered, pel, sweep, shutdown, stream, call>>

\* The worker process dies (kill -9, out of memory, host loss): nothing of
\* it runs any more, what it wrote to the store and the queue stays.
Crash(w) ==
    /\ worker[w].pc \notin {"stopped", "crashed"}
    /\ worker' = [worker EXCEPT ![w] = [IdleWorker EXCEPT !.pc = "crashed"]]
    /\ sweep' = [sweep EXCEPT ![w] = [IdleSweep EXCEPT !.pc = "stopped"]]
    /\ UNCHANGED <<api, tests, db, events, queue, delivered, pel, shutdown, faults, stream, call>>

\* --------------------------------------------------- stuck-run recovery
\* Time passes: a running run's started_at becomes older than the stuck
\* timeout.
Tick ==
    \E r \in RunIds :
        /\ db[r].status = "running"
        /\ db[r].started = "fresh"
        /\ db' = [db EXCEPT ![r].started = "old"]
        /\ UNCHANGED <<api, tests, events, queue, delivered, pel, worker, sweep, shutdown, faults, stream, call>>

\* The rows of recover_stuck_runs' SELECT.
StuckRuns == {r \in RunIds : db[r].status = "running" /\ db[r].started = "old"}

\* The loop test of recover_stuck_runs_periodically, when the task starts
\* and after each sleep: the task returns when the shutdown event is set,
\* and calls recover_stuck_runs otherwise.
SweepLoop(w) ==
    /\ sweep[w].pc = "wait"
    /\ sweep' = [sweep EXCEPT ![w].pc = IF shutdown[w] THEN "stopped" ELSE "select"]
    /\ UNCHANGED <<api, tests, db, events, queue, delivered, pel, worker, shutdown, faults,
                   stream, call>>

\* recover_stuck_runs SELECTs the stuck runs; without rows the pass is over
\* and the task sleeps. An exception other than the cancellation ends the
\* task.
SweepSelect(w) ==
    /\ sweep[w].pc = "select"
    /\ \/ /\ sweep' = [sweep EXCEPT ![w] =
                          IF StuckRuns = {} THEN IdleSweep
                          ELSE [IdleSweep EXCEPT !.pc = "rows", !.rows = StuckRuns]]
          /\ UNCHANGED faults
       \/ /\ Raises
          /\ sweep' = [sweep EXCEPT ![w].pc = "stopped", ![w].exc = TRUE]
    /\ UNCHANGED <<api, tests, db, events, queue, delivered, pel, worker, shutdown, stream, call>>

\* For a row of the SELECT: UPDATE test_runs SET status = 'failed',
\* error = 'Stuck - timeout' WHERE id = the row's id.
SweepUpdate(w) ==
    /\ sweep[w].pc = "rows"
    /\ \/ \E r \in sweep[w].rows :
              /\ db' = UpdateRun(r, [db[r] EXCEPT !.status = "failed", !.error = "stuck"])
              /\ sweep' = [sweep EXCEPT ![w].pc = "event", ![w].cur = r]
              /\ UNCHANGED faults
       \/ /\ Raises
          /\ sweep' = [sweep EXCEPT ![w] = [IdleSweep EXCEPT !.pc = "stopped",
                                                             !.exc = TRUE]]
          /\ UNCHANGED db
    /\ UNCHANGED <<api, tests, events, queue, delivered, pel, worker, shutdown, stream, call>>

\* The error event of the row just updated; after the last row the task
\* sleeps until the next pass.
SweepEvent(w) ==
    /\ sweep[w].pc = "event"
    /\ \/ /\ events' = [events EXCEPT ![sweep[w].cur] = AppendRunEvent(@, "error", "stuck")]
          /\ LET rest == sweep[w].rows \ {sweep[w].cur} IN
             sweep' = [sweep EXCEPT ![w] =
                          IF rest = {} THEN IdleSweep
                          ELSE [IdleSweep EXCEPT !.pc = "rows", !.rows = rest]]
          /\ UNCHANGED faults
       \/ /\ Raises
          /\ sweep' = [sweep EXCEPT ![w] = [IdleSweep EXCEPT !.pc = "stopped",
                                                             !.exc = TRUE]]
          /\ UNCHANGED events
    /\ UNCHANGED <<api, tests, db, queue, delivered, pel, worker, shutdown, stream, call>>

\* ------------------------------------------------------ specification
WorkerStep(w) ==
    \/ MainLoop(w) \/ ConsumeRunJob(w) \/ ProcessJobFetch(w)
    \/ NotFoundEvent(w) \/ NotFoundDb(w)
    \/ NoStepsEvent(w) \/ NoStepsDb(w)
    \/ InvalidEvent(w) \/ InvalidDb(w)
    \/ StartEvent(w) \/ SetRunning(w) \/ ExecuteSteps(w)
    \/ CompleteEvent(w) \/ CompleteDb(w) \/ Ack(w)
    \/ PermEvent(w) \/ PermDb(w)
    \/ Finally(w) \/ CloseDb(w) \/ CloseRedis(w)

SweepStep(w) == SweepLoop(w) \/ SweepSelect(w) \/ SweepUpdate(w) \/ SweepEvent(w)

\* The system in which the workers of W run their main loops, the worker
\* processes of K may be signalled or die, and the workers of S run their
\* recovery tasks while time passes.
NextOf(W, K, S) ==
    \/ CreateTests \/ RunTest \/ EditTests
    \/ \E w \in W : WorkerStep(w) \/ DeadlinePasses(w)
    \/ \E w \in K : HandleShutdown(w) \/ Crash(w)
    \/ \E w \in S : SweepStep(w) \/ Tick

Next == NextOf(Workers, Workers, Workers)

Spec == Init /\ [][Next]_vars

\* One worker and its retry loop on one job, with as many raising calls as
\* the loop has attempts.
NextRetry ==
    \/ CreateTestOnce \/ RunTestOnce \/ DeleteTest({1})
    \/ WorkerStep(1) \/ HandleShutdown(1)

SpecRetry == InitWith(RetryAttempts) /\ [][NextRetry]_vars

\* The workers and the queue: every worker claims, processes or dies, the
\* first may be signalled, the runs are of one test or of two, and the first
\* test may be deleted, with the rows of all its runs, while their jobs are
\* queued or held; no call to the store or the queue raises.
NextQueue ==
    \/ CreateTests \/ RunTest \/ DeleteTest({1}) \/ HandleShutdown(1)
    \/ \E w \in Workers : WorkerStep(w) \/ Crash(w)

SpecQueue == InitWith(0) /\ [][NextQueue]_vars

\* The workers and one job, every worker process that is running taking
\* steps for ever.
NextDelivery ==
    CreateTestOnce \/ RunTestOnce \/ DeleteTest({1})
        \/ \E w \in Workers : WorkerStep(w) \/ HandleShutdown(w) \/ Crash(w)

FairDelivery ==
    Init /\ [][NextDelivery]_vars /\ \A w \in Workers : WF_vars(WorkerStep(w))

\* A worker that may die mid-run, and the recovery task of another worker
\* process, both taking steps for ever while they run.
NextRecovery ==
    CreateTestOnce \/ RunTestOnce \/ DeleteTest({1}) \/ Tick
        \/ WorkerStep(1) \/ Crash(1) \/ WorkerStep(2) \/ SweepStep(2)

SpecRecovery == Init /\ [][NextRecovery]_vars

FairRecovery ==
    SpecRecovery /\ (\A w \in Workers : WF_vars(WorkerStep(w))) /\ WF_vars(SweepStep(2))

\* ------------------------------------------------------------- claims
Entries == 1..Len(queue)

\* C1: once a complete or error event is in a run's log, nothing more is
\* appended to that log.
C1_TerminalEventIsLast ==
    [][\A r \in RunIds : HasTerminal(events[r]) => events'[r] = events[r]]_vars

\* C2: a persisted status passed or failed is never changed again, as long
\* as the run has a row.
C2_TerminalStatusIsFinal ==
    [][\A r \in RunIds :
          (db[r].status \in TerminalStatus /\ db'[r].status # "absent")
          => db'[r].status = db[r].status]_vars

\* A worker inside execute_test.
InExecuteTest(w) ==
    /\ worker[w].pc \in {"fail_event", "fail_db", "start_event", "set_running",
                         "complete_event", "complete_db"} \cup TryBlock
    /\ worker[w].path # "notfound"

\* C3: a queue entry is pending for at most one consumer, and no two workers
\* are inside execute_test for the same run.
C3_ExclusiveDelivery ==
    /\ \A e \in Entries : Cardinality(Holders(e)) <= 1
    /\ \A w1, w2 \in Workers :
          (w1 # w2 /\ InExecuteTest(w1) /\ InExecuteTest(w2)) => RunOf(w1) # RunOf(w2)

\* Two workers claimed concurrently and both are inside execute_test.
C3_Witness ==
    \E w1, w2 \in Workers : w1 # w2 /\ InExecuteTest(w1) /\ InExecuteTest(w2)

\* A worker process that still claims jobs.
Live(w) ==
    /\ worker[w].pc \notin {"finally", "close_db", "close_redis", "stopped", "crashed"}
    /\ ~shutdown[w]

\* C4: an entry pending for a worker that died is eventually delivered to a
\* live worker, as long as there is one.
C4_PendingJobIsRedelivered ==
    (1 \in Entries /\ \E w \in Holders(1) : worker[w].pc = "crashed")
        ~> ((\E w \in Holders(1) : Live(w)) \/ ~\E w \in Workers : Live(w))

\* The worker is done with the job it claimed last.
DoneWith(w) == worker[w].pc = "loop" /\ worker[w].job # 0

LastEvent(r) == events[r][Len(events[r])]

\* C5: after process_job raised a transient error on each of the three
\* attempts, the run (if it has a row) is failed with the error's text and
\* has an error event.
C5_ExhaustedRetriesAreRecorded ==
    \A w \in Workers :
        (DoneWith(w) /\ worker[w].raised = RetryAttempts
            /\ IsTransientError(worker[w].lastExc))
        => /\ HasRow(RunOf(w)) => /\ db[RunOf(w)].status = "failed"
                                  /\ db[RunOf(w)].error = "exc"
           /\ \E k \in 1..Len(events[RunOf(w)]) :
                 events[RunOf(w)][k] = Event("error", "exc")

\* C6: after a job ended in failure, by a permanent exception or by three
\* failed attempts, its entry has left the pending list.
C6_FailedJobIsAcknowledged ==
    \A w \in Workers :
        (DoneWith(w) /\ (worker[w].lastExc = "permanent"
                            \/ worker[w].raised = RetryAttempts))
        => Holders(worker[w].job) = {}

\* C7: when a worker is done with a job, the run (if it has a row) has a
\* terminal status, and its log a terminal event, whatever process_job
\* raised.
C7_EveryOutcomeIsRecorded ==
    \A w \in Workers :
        DoneWith(w) => /\ HasRow(RunOf(w)) => db[RunOf(w)].status \in TerminalStatus
                       /\ HasTerminal(events[RunOf(w)])

\* A run the recovery pass has to fail: running, started longer ago than the
\* stuck timeout.
Stuck(r) == db[r].status = "running" /\ db[r].started = "old"

\* The run is ended, and if the recovery pass ended it the pass's error
\* event is in the log.
Recovered(r) ==
    /\ db[r].status \in TerminalStatus
    /\ db[r].error = "stuck" =>
          \E k \in 1..Len(events[r]) : events[r][k] = Event("error", "stuck")

\* C8: while some worker process is live, a stuck run is eventually failed
\* with the stuck error and gets the recovery's error event (unless its own
\* worker ends it first, or the run is deleted with its test).
C8_StuckRunIsRecovered ==
    Stuck(1) ~> (Recovered(1) \/ ~HasRow(1) \/ ~\E w \in Workers : Live(w))

\* C9: when execute_test has returned, the call has appended exactly one
\* terminal event.
C9_OneTerminalEventPerCall ==
    \A w \in Workers :
        (worker[w].pc = "ack" /\ worker[w].path # "notfound") => worker[w].terms = 1

\* execute_test returned after a step failed.
C9_Witness ==
    \E w \in Workers :
        /\ worker[w].pc = "ack"
        /\ worker[w].path = "valid"
        /\ worker[w].finalError = "step"

\* C10: a run whose status is passed or failed has a log that ends with a
\* complete or error event.
C10_TerminalStatusHasTerminalEvent ==
    \A r \in RunIds :
        db[r].status \in TerminalStatus
        => (Len(events[r]) > 0 /\ IsTerminalEvent(LastEvent(r)))

\* ------------------------------------------------ reading a run's log
Min(a, b) == IF a < b THEN a ELSE b

\* ReadRunEvents, were the cursor's own entry returned too (a range read
\* from after_id instead of a read after it).
ReadRunEvents_Inclusive(log, after_id, count) ==
    LET from == IF after_id = 0 THEN 1 ELSE after_id
        n == Min(count, Cardinality({k \in 1..Len(log) : k >= from})) IN
    [k \in 1..n |-> <<from + k - 1, log[from + k - 1]>>]

\* read_run_events(run_id, after_id, count): XREAD returns the entries whose
\* id is greater than after_id, oldest first, at most count of them; each is
\* returned as (entry_id, event).
ReadRunEvents(log, after_id, count) ==
    LET n == Min(count, Cardinality({k \in 1..Len(log) : k > after_id})) IN
    [k \in 1..n |-> <<after_id + k, log[after_id + k]>>]

\* The logs read_run_events is called on.
Logs ==
    UNION {[1..n -> {Event("log", "executing"), Event("complete", "passed")}]
              : n \in 0..MaxLog}

\* The calls of read_run_events: a log, a cursor (0, the id of an event, or
\* an id past the end) and a count.
ReadCalls ==
    {[fn |-> "read_run_events", log |-> l, after |-> a, count |-> c,
      done |-> FALSE, out |-> << >>]
        : l \in Logs, a \in 0..(MaxLog + 1), c \in 1..MaxCount}

ReadCall ==
    /\ call.fn = "read_run_events"
    /\ ~call.done
    /\ call' = [call EXCEPT !.done = TRUE,
                            !.out = ReadRunEvents(call.log, call.after, call.count)]
    /\ UNCHANGED <<api, tests, db, events, queue, delivered, pel, worker, sweep, shutdown,
                   faults, stream>>

InitRead == InitBase(0) /\ call \in ReadCalls

SpecRead == InitRead /\ [][ReadCall]_vars

\* C11: read_run_events returns the events after the cursor, in log order
\* with increasing ids and without a gap, at most count of them, and all of
\* them up to the end of the log when they are fewer than count.
C11_ReadAfterCursor ==
    (call.fn = "read_run_events" /\ call.done) =>
        LET out == call.out
            rest == IF call.after < Len(call.log) THEN Len(call.log) - call.after ELSE 0 IN
        /\ Len(out) = Min(call.count, rest)
        /\ \A k \in 1..Len(out) :
              /\ out[k][1] = call.after + k
              /\ out[k][2] = call.log[out[k][1]]
        /\ \A k \in 1..(Len(out) - 1) : out[k][1] < out[k + 1][1]

\* A read after the id of the first of three events returned events 2 and 3.
C11_Witness ==
    /\ call.fn = "read_run_events"
    /\ call.done
    /\ call.after = 1
    /\ Len(call.log) = 3
    /\ Len(call.out) = 2
    /\ call.out[2][1] = 3

\* ------------------------------------------- GET /results/{run_id}/stream
\* The run whose stream the client reads.
StreamRun == 1

\* InitialCursor, were the Last-Event-ID header ignored.
InitialCursor_Ignored(recv) == 0

\* last_id at the start of a connection: the Last-Event-ID header, which the
\* client sets to the id of the last event it received, "0" without it.
InitialCursor(recv) == IF recv = << >> THEN 0 ELSE recv[Len(recv)][1]

\* AfterYield, were only a complete event to end the stream.
AfterYield_CompleteOnly(evt, rest) ==
    IF evt.type = "complete" THEN "ended"
    ELSE IF rest = << >> THEN "check" ELSE "yield"

\* Where event_generator goes after a yield: a complete or error event sets
\* seen_complete and ends the loop; otherwise the next event of the batch is
\* yielded, and after the last one the loop polls again.
AfterYield(evt, rest) ==
    IF evt.type = "complete" \/ evt.type = "error" THEN "ended"
    ELSE IF rest = << >> THEN "check" ELSE "yield"

\* The client opens a connection (its first, or one after the last ended).
StreamConnect ==
    /\ stream.pc \in {"idle", "ended"}
    /\ stream' = [stream EXCEPT !.pc = "check", !.lastId = InitialCursor(stream.recv),
                                !.batch = << >>, !.yielded = << >>,
                                !.connected = TRUE]
    /\ UNCHANGED <<api, tests, db, events, queue, delivered, pel, worker, sweep, shutdown,
                   faults, call>>

\* The client goes away.
StreamDisconnect ==
    /\ stream.pc \in {"check", "read", "yield", "sleep"}
    /\ stream.connected
    /\ stream.drops < MaxDrops
    /\ stream' = [stream EXCEPT !.connected = FALSE, !.drops = @ + 1]
    /\ UNCHANGED <<api, tests, db, events, queue, delivered, pel, worker, sweep, shutdown,
                   faults, call>>

\* The top of the generator's loop, await request.is_disconnected(): return
\* when the client is gone, else the read is next.
StreamCheck ==
    /\ stream.pc = "check"
    /\ stream' = [stream EXCEPT !.pc = IF stream.connected THEN "read" ELSE "ended"]
    /\ UNCHANGED <<api, tests, db, events, queue, delivered, pel, worker, sweep, shutdown,
                   faults, call>>

\* await read_run_events(run_id, after_id=last_id), with its default count:
\* the events after last_id; without events sleep and loop. A read that
\* raises ends the connection.
StreamRead ==
    /\ stream.pc = "read"
    /\ \/ /\ LET evs == ReadRunEvents(events[StreamRun], stream.lastId, ReadCount) IN
             stream' = [stream EXCEPT !.batch = evs,
                                      !.pc = IF evs = << >> THEN "sleep" ELSE "yield"]
          /\ UNCHANGED faults
       \/ /\ Raises
          /\ stream' = [stream EXCEPT !.pc = "ended"]
    /\ UNCHANGED <<api, tests, db, events, queue, delivered, pel, worker, sweep, shutdown,
                   call>>

\* The loop over the batch: last_id becomes the entry's id and the event is
\* yielded with that id; a client that is gone receives nothing and the
\* generator is closed.
StreamYield ==
    /\ stream.pc = "yield"
    /\ LET e == Head(stream.batch)
           rest == Tail(stream.batch) IN
       IF stream.connected
       THEN stream' = [stream EXCEPT !.lastId = e[1],
                                     !.batch = rest,
                                     !.yielded = Append(@, e[1]),
                                     !.recv = Append(@, e),
                                     !.pc = AfterYield(e[2], rest)]
       ELSE stream' = [stream EXCEPT !.lastId = e[1], !.batch = << >>,
                                     !.pc = "ended"]
    /\ UNCHANGED <<api, tests, db, events, queue, delivered, pel, worker, sweep, shutdown,
                   faults, call>>

\* await asyncio.sleep(0.5) after a read without events, then the loop's
\* next pass.
StreamSleep ==
    /\ stream.pc = "sleep"
    /\ stream' = [stream EXCEPT !.pc = "check"]
    /\ UNCHANGED <<api, tests, db, events, queue, delivered, pel, worker, sweep, shutdown,
                   faults, call>>

StreamStep == StreamConnect \/ StreamCheck \/ StreamRead \/ StreamYield \/ StreamSleep

\* One worker producing the events of a run while a client streams them.
NextStream ==
    \/ CreateTestOnce \/ RunTestOnce \/ DeleteTest({1})
    \/ WorkerStep(1) \/ StreamStep \/ StreamDisconnect

SpecStream == Init /\ [][NextStream]_vars

FairStream == SpecStream /\ WF_vars(WorkerStep(1)) /\ WF_vars(StreamStep)

\* What the client received is the start of the run's log, each event under
\* the id of its log entry.
StreamPrefix ==
    /\ Len(stream.recv) <= Len(events[StreamRun])
    /\ \A k \in 1..Len(stream.recv) : stream.recv[k] = <<k, events[StreamRun][k]>>

\* The client has the first terminal event, or all there is.
CaughtUp ==
    \/ \E k \in 1..Len(stream.recv) : IsTerminalEvent(stream.recv[k][2])
    \/ Len(stream.recv) = Len(events[StreamRun])

\* C12: over all its connections the client receives the logged events once
\* each, in log order and under their log ids, and it always gets to the
\* first terminal event (or to the end of the log), however it disconnects
\* and reconnects with the id of the last event it received.
C12_ResumeWithoutLossOrDuplicate == [](StreamPrefix) /\ []<>CaughtUp

\* The client went away, came back, and received the terminal event on a
\* later connection than the first events.
C12_Witness ==
    /\ stream.drops = 1
    /\ Len(stream.recv) >= 2
    /\ IsTerminalEvent(stream.recv[Len(stream.recv)][2])
    /\ Len(stream.yielded) < Len(stream.recv)
    /\ Len(stream.yielded) > 0

\* The event of the log entry with this id.
YieldedEvent(k) == events[StreamRun][stream.yielded[k]]

\* Only the last event a connection yielded is terminal, and the connection
\* has ended once it yielded one.
EndsAtTerminal ==
    /\ \A k \in 1..(Len(stream.yielded) - 1) : ~IsTerminalEvent(YieldedEvent(k))
    /\ (stream.yielded # << >> /\ IsTerminalEvent(YieldedEvent(Len(stream.yielded))))
          => stream.pc = "ended"

\* A terminal event is in the log after the connection's cursor.
TerminalAfterCursor ==
    \E k \in 1..Len(events[StreamRun]) :
        k > stream.lastId /\ IsTerminalEvent(events[StreamRun][k])

\* C13: a connection yields nothing after its first terminal event and ends
\* with it, and a connection whose client stays ends once a terminal event
\* is in the log after its cursor.
C13_StreamEndsAtTerminal ==
    /\ [](EndsAtTerminal)
    /\ (stream.pc \in {"check", "read", "yield", "sleep"} /\ TerminalAfterCursor)
          ~> (stream.pc = "ended" \/ ~stream.connected)

\* A connection ended with the terminal event while the log holds a later
\* event, which was not yielded.
C13_Witness ==
    /\ stream.pc = "ended"
    /\ stream.connected
    /\ stream.yielded # << >>
    /\ IsTerminalEvent(YieldedEvent(Len(stream.yielded)))
    /\ Len(events[StreamRun]) > stream.yielded[Len(stream.yielded)]

\* C14: process_job is called at most three times for a job; a further call
\* follows only a transient error of the attempt before, after a sleep of
\* 1 second before the second call and 2 seconds before the third.
C14_RetryCountAndBackoff ==
    [][\A w \in Workers :
          /\ worker'[w].calls <= 3
          /\ (worker'[w].calls > worker[w].calls /\ worker[w].calls >= 1)
                => /\ worker'[w].job = worker[w].job
                   /\ worker'[w].calls = worker[w].calls + 1
                   /\ IsTransientError(worker'[w].lastExc)
                   /\ worker'[w].delay = (IF worker[w].calls = 1 THEN 1 ELSE 2)]_vars

\* The third call of process_job for a job has started, after a sleep of 2 s.
C14_Witness ==
    \E w \in Workers :
        worker[w].pc = "fetch" /\ worker[w].calls = 3 /\ worker[w].delay = 2

\* process_job raised a permanent exception for the worker's job.
PermanentFailure(w) ==
    worker[w].job # 0 /\ worker[w].lastExc = "permanent" /\ worker[w].raised > 0

\* C15: after a permanent exception of process_job no further attempt is
\* made for the job; when the worker is back at its loop the log ends with
\* an error event carrying the exception's text, and the handler's UPDATE,
\* when it does not raise and the run still has a row, leaves the run failed
\* with that error.
C15_PermanentFailureIsRecorded ==
    /\ [](\A w \in Workers :
             (DoneWith(w) /\ PermanentFailure(w))
             => /\ events[RunOf(w)] # << >>
                /\ LastEvent(RunOf(w)) = Event("error", "exc"))
    /\ [][\A w \in Workers :
             /\ PermanentFailure(w)
                => (worker'[w].calls = worker[w].calls \/ worker'[w].lastExc = "none")
             /\ (PermanentFailure(w) /\ worker[w].pc = "perm_db" /\ DoneWith(w)'
                    /\ faults' = faults /\ HasRow(RunOf(w)))
                => /\ db'[RunOf(w)].status = "failed"
                   /\ db'[RunOf(w)].error = "exc"]_vars

\* A permanent exception on the third attempt was recorded.
C15_Witness ==
    \E w \in Workers :
        /\ DoneWith(w) /\ PermanentFailure(w)
        /\ worker[w].attempt = 2
        /\ LastEvent(RunOf(w)) = Event("error", "exc")
        /\ db[RunOf(w)].status = "failed" /\ db[RunOf(w)].error = "exc"

\* ------------------------------------------------- the engine by itself
\* One worker running one run of any test of up to MaxEngineSteps steps.
NextEngine ==
    \/ CreateTest({1}, TestRowsUpTo(MaxEngineSteps)) \/ RunTestOnce
    \/ EditTestOnce
    \/ WorkerStep(1) \/ DeadlinePasses(1)

SpecEngine == Init /\ [][NextEngine]_vars

\* The definition (of a test row, or the one a worker holds) has a step that
\* _validate_step rejects.
HasInvalidStep(t) == \E k \in 1..Len(t.steps) : ~t.steps[k]

\* The events the step appends to run r's log.
NewEvents(r) == SubSeq(events'[r], Len(events[r]) + 1, Len(events'[r]))

\* C16: a call of execute_test with a definition that has an invalid step
\* launches no browser and runs no step, appends nothing but error events
\* and writes no status but failed; when it returns the log ends with the
\* validation error event and the run, if it has a row, is failed at the
\* first invalid step.
C16_InvalidStepFailsFast ==
    /\ [](\A w \in Workers :
             HasInvalidStep(worker[w])
             => /\ worker[w].pc \in {"fail_event", "fail_db", "ack"}
                /\ ~worker[w].browser
                /\ worker[w].results = << >>
                /\ worker[w].pc = "ack"
                      => /\ events[RunOf(w)] # << >>
                         /\ LastEvent(RunOf(w)) = Event("error", "invalid")
                         /\ HasRow(RunOf(w))
                               => /\ db[RunOf(w)].status = "failed"
                                  /\ db[RunOf(w)].error = "invalid"
                                  /\ db[RunOf(w)].errorStep = worker[w].failedStep
                                  /\ worker[w].failedStep \in 0..(Len(worker[w].steps) - 1)
                                  /\ ~worker[w].steps[worker[w].failedStep + 1]
                                  /\ \A k \in 1..worker[w].failedStep : worker[w].steps[k])
    /\ [][\A w \in Workers :
             (HasInvalidStep(worker[w]) /\ worker'[w] # worker[w])
             => /\ \A k \in 1..Len(NewEvents(RunOf(w))) :
                      NewEvents(RunOf(w))[k].type = "error"
                /\ db'[RunOf(w)].status \in {db[RunOf(w)].status, "failed"}]_vars

\* execute_test returned for a test whose second step is the invalid one.
C16_Witness ==
    \E w \in Workers :
        /\ worker[w].pc = "ack"
        /\ worker[w].path = "invalid"
        /\ worker[w].steps = <<TRUE, FALSE>>
        /\ db[RunOf(w)].errorStep = 1

\* C18: the step results are those of steps 0, 1, 2, ... in order, none
\* follows a failed one, and when the loop ended without timeout or
\* exception they end with the first failed step, or with the last step
\* when none failed; the record, if the run has a row, gets exactly these
\* results.
C18_StepsInOrderUntilFirstFailure ==
    \A w \in Workers :
        LET res == worker[w].results IN
        /\ \A k \in 1..Len(res) : res[k].step = k - 1
        /\ \A k \in 1..(Len(res) - 1) : res[k].status = "passed"
        /\ Len(res) <= worker[w].nsteps
        /\ (worker[w].pc = "ack" /\ worker[w].path = "valid")
              => /\ HasRow(RunOf(w)) => db[RunOf(w)].stepResults = res
                 /\ worker[w].finalError = "none"
                       => (Len(res) = worker[w].nsteps
                              /\ \A k \in 1..Len(res) : res[k].status = "passed")
                 /\ worker[w].finalError = "step"
                       => (res # << >> /\ res[Len(res)].status = "failed"
                              /\ worker[w].failedStep = Len(res) - 1
                              /\ HasRow(RunOf(w))
                                    => db[RunOf(w)].errorStep = Len(res) - 1)

\* A run of three steps ended at its second step, which failed.
C18_Witness ==
    \E w \in Workers :
        /\ worker[w].pc = "ack"
        /\ worker[w].nsteps = 3
        /\ Len(worker[w].results) = 2
        /\ worker[w].finalError = "step"

\* A step of worker w that comes to the top of the loop with another step
\* of the definition to run: the page was opened, or a pass whose step
\* passed has ended.
AtCheck(w) ==
    /\ worker'[w].pc \in {"executing", "page_close"}
    /\ \/ worker[w].pc = "new_page"
       \/ /\ worker[w].pc \in {"screenshot", "shot_event"}
          /\ worker[w].result.status = "passed"
          /\ worker[w].i + 1 < worker[w].nsteps

\* C19: when the deadline has passed at the check before step i, the loop
\* is left there with the timeout error and failed_step = i, without an
\* event or a result for step i; the run, if it has a row, is then failed
\* with the timeout error, error_step = i, and the results of the steps
\* before i only.
C19_DeadlineCheckedBeforeEachStep ==
    /\ [][\A w \in Workers :
             (AtCheck(w) /\ worker[w].late)
             => /\ worker'[w].pc = "page_close"
                /\ worker'[w].finalError = "timeout"
                /\ worker'[w].failedStep = Len(worker[w].results)
                /\ worker'[w].results = worker[w].results
                /\ \A k \in 1..Len(NewEvents(RunOf(w))) :
                      NewEvents(RunOf(w))[k].type = "screenshot"]_vars
    /\ [](\A w \in Workers :
             (worker[w].pc = "ack" /\ worker[w].finalError = "timeout"
                 /\ HasRow(RunOf(w)))
             => /\ db[RunOf(w)].status = "failed"
                /\ db[RunOf(w)].error = "timeout"
                /\ db[RunOf(w)].errorStep = worker[w].failedStep
                /\ Len(db[RunOf(w)].stepResults) = db[RunOf(w)].errorStep
                /\ \A k \in 1..Len(db[RunOf(w)].stepResults) :
                      db[RunOf(w)].stepResults[k].status = "passed")

\* The deadline passed while the second step ran and the check before the
\* third step ended the run.
C19_Witness ==
    \E w \in Workers :
        /\ worker[w].pc = "ack"
        /\ worker[w].finalError = "timeout"
        /\ db[RunOf(w)].errorStep = 2
        /\ Len(db[RunOf(w)].stepResults) = 2

\* ---------------------------------------------------- _validate_step
\* The values of a string field of a step: the key is absent, or the string
\* is empty, only whitespace, or a text.
FieldValues == {"absent", "empty", "blank", "text"}

\* not v or not str(v).strip()
IsBlank(v) == v \in {"absent", "empty", "blank"}

\* The outcome of _validate_step: None, or an error message, of which the
\* key it names in quotes is kept.
Accepted == [valid |-> TRUE, names |-> {}]
Rejected(names) == [valid |-> FALSE, names |-> names]

\* _validate_step(step, idx)
ValidateStep(step) ==
    IF step.action \in {"absent", "empty"} THEN Rejected({"action"})
    ELSE IF step.action \notin {"navigate", "click", "fill", "verify"}
    THEN Rejected({step.action})
    ELSE IF step.action = "navigate" THEN Accepted
    ELSE IF step.action = "click"
    THEN IF IsBlank(step.selector) THEN Rejected({"advanced_selector"}) ELSE Accepted
    ELSE IF step.action = "fill"
    THEN IF IsBlank(step.selector) THEN Rejected({"advanced_selector"})
         ELSE IF ~step.hasValue THEN Rejected({"value"})
         ELSE Accepted
    ELSE IF IsBlank(step.expected) THEN Rejected({"expected"}) ELSE Accepted

\* The steps _validate_step is called on.
Steps ==
    [action : {"absent", "empty", "navigate", "click", "fill", "verify", "hover"},
     selector : FieldValues, instruction : FieldValues, hasValue : BOOLEAN,
     expected : {"absent", "blank", "text"}]

ValidateCalls ==
    {[fn |-> "_validate_step", step |-> st, done |-> FALSE, out |-> Accepted]
        : st \in Steps}

ValidateCall ==
    /\ call.fn = "_validate_step"
    /\ ~call.done
    /\ call' = [call EXCEPT !.done = TRUE, !.out = ValidateStep(call.step)]
    /\ UNCHANGED <<api, tests, db, events, queue, delivered, pel, worker, sweep, shutdown,
                   faults, stream>>

InitValidate == InitBase(0) /\ call \in ValidateCalls

SpecValidate == InitValidate /\ [][ValidateCall]_vars

\* C17: a click or fill step is accepted exactly when its selector or its
\* instruction is non-blank (and a fill step has the key 'value'), and the
\* error for a click with neither names 'advanced_selector' and
\* 'instruction'.
C17_ClickFillNeedResolvableTarget ==
    (call.fn = "_validate_step" /\ call.done /\ call.step.action \in {"click", "fill"})
    => LET st == call.step
           resolvable == ~IsBlank(st.selector) \/ ~IsBlank(st.instruction) IN
       /\ call.out.valid = (resolvable /\ (st.action = "fill" => st.hasValue))
       /\ (st.action = "click" /\ ~resolvable)
             => {"advanced_selector", "instruction"} \subseteq call.out.names

\* ------------------------------------------- execute_click / execute_fill
\* A strategy's try_execute returned None; op tells whether it performed its
\* page operation (page.click, page.fill, or the locator's) before.
NoResult(op) == [hit |-> FALSE, strategy |-> "none", selfHealed |-> FALSE, op |-> op]

\* extract_target_text(instruction) is not empty: something is left of the
\* instruction without its action verbs and articles.
HasTargetText(ins) == ins = "text"

\* Strategy.try_execute(page, step, action, value) for an argument in which
\* selOk and domOk tell whether the page's click/fill through the selector,
\* through the semantic locator, succeeds. SelectorStrategy returns None
\* without a selector, DOMStrategy without an instruction or without a
\* target text in it, VisionStrategy always.
TryExecute(name, arg) ==
    IF name = "selector"
    THEN IF IsBlank(arg.selector) THEN NoResult(FALSE)
         ELSE IF arg.selOk
         THEN [hit |-> TRUE, strategy |-> "selector", selfHealed |-> FALSE, op |-> TRUE]
         ELSE NoResult(TRUE)
    ELSE IF name = "dom"
    THEN IF IsBlank(arg.instruction) \/ ~HasTargetText(arg.instruction)
         THEN NoResult(FALSE)
         ELSE IF arg.domOk
         THEN [hit |-> TRUE, strategy |-> "dom", selfHealed |-> TRUE, op |-> TRUE]
         ELSE NoResult(TRUE)
    ELSE NoResult(FALSE)

Strategies == <<"selector", "dom", "vision">>

\* The locals of execute_click before its loop: attempts and errors; invoked
\* is the strategies whose try_execute was called so far, ops the page
\* operations they performed, each with its outcome.
NoAttempt == [attempts |-> 0, errors |-> << >>, invoked |-> << >>, ops |-> << >>]

\* One pass of the loop was made for strategy name, whose try_execute
\* returned r: attempts += 1 before the call, and errors gets the strategy's
\* name unless the result is returned.
Attempted(acc, name, r) ==
    [attempts |-> acc.attempts + 1,
     errors |-> IF r.hit THEN acc.errors ELSE Append(acc.errors, name),
     invoked |-> Append(acc.invoked, name),
     ops |-> IF r.op THEN Append(acc.ops, [via |-> name, ok |-> r.hit]) ELSE acc.ops]

\* TryFrom, were the loop to go on after a strategy succeeded and to return
\* the last result that is not None.
RECURSIVE TryFrom_NoEarlyReturn(_, _, _)
TryFrom_NoEarlyReturn(k, acc, arg) ==
    IF k > Len(Strategies)
    THEN [status |-> "failed", strategy |-> "unknown", selfHealed |-> FALSE,
          attempts |-> acc.attempts, errorPrefix |-> "All strategies failed",
          errorListed |-> acc.errors, invoked |-> acc.invoked, ops |-> acc.ops]
    ELSE LET r == TryExecute(Strategies[k], arg)
             acc1 == Attempted(acc, Strategies[k], r)
             later == TryFrom_NoEarlyReturn(k + 1, acc1, arg) IN
         IF r.hit /\ later.status = "failed"
         THEN [status |-> "passed", strategy |-> r.strategy,
               selfHealed |-> r.selfHealed, attempts |-> later.attempts,
               errorPrefix |-> "none", errorListed |-> << >>,
               invoked |-> later.invoked, ops |-> later.ops]
         ELSE later

\* The loop of execute_click and execute_fill from the k-th strategy on:
\* attempts is incremented, then the strategy is called; the first result
\* that is not None is returned with the strategy and self_healed it names,
\* and after the last strategy the failure with the aggregate error, of
\* which the prefix and the strategies it lists are kept.
RECURSIVE TryFrom(_, _, _)
TryFrom(k, acc, arg) ==
    IF k > Len(Strategies)
    THEN [status |-> "failed", strategy |-> "unknown", selfHealed |-> FALSE,
          attempts |-> acc.attempts, errorPrefix |-> "All strategies failed",
          errorListed |-> acc.errors, invoked |-> acc.invoked, ops |-> acc.ops]
    ELSE LET r == TryExecute(Strategies[k], arg)
             acc1 == Attempted(acc, Strategies[k], r) IN
         IF r.hit
         THEN [status |-> "passed", strategy |-> r.strategy,
               selfHealed |-> r.selfHealed, attempts |-> acc1.attempts,
               errorPrefix |-> "none", errorListed |-> << >>,
               invoked |-> acc1.invoked, ops |-> acc1.ops]
         ELSE TryFrom(k + 1, acc1, arg)

\* execute_click(page, step), execute_fill(page, step)
ExecuteClickOrFill(arg) == TryFrom(1, NoAttempt, arg)

\* No result yet.
NoOutcome ==
    [status |-> "none", strategy |-> "none", selfHealed |-> FALSE, attempts |-> 0,
     errorPrefix |-> "none", errorListed |-> << >>, invoked |-> << >>, ops |-> << >>]

\* The calls of execute_click and execute_fill: the step's selector (absent,
\* blank or a text), its instruction (absent, blank, only action verbs and
\* articles, or a text), and what the page does with each.
ClickCalls ==
    {[fn |-> "execute_click", action |-> a, selector |-> sel, instruction |-> ins,
      selOk |-> so, domOk |-> do, done |-> FALSE, out |-> NoOutcome]
        : a \in {"click", "fill"}, sel \in {"absent", "blank", "text"},
          ins \in {"absent", "blank", "verbs", "text"}, so \in BOOLEAN, do \in BOOLEAN}

ClickCall ==
    /\ call.fn = "execute_click"
    /\ ~call.done
    /\ call' = [call EXCEPT !.done = TRUE, !.out = ExecuteClickOrFill(call)]
    /\ UNCHANGED <<api, tests, db, events, queue, delivered, pel, worker, sweep, shutdown,
                   faults, stream>>

InitClick == InitBase(0) /\ call \in ClickCalls

SpecClick == InitClick /\ [][ClickCall]_vars

\* The strategies that were tried: the selector strategy when there is a
\* selector, the DOM strategy when there is an instruction and the selector
\* strategy did not succeed.
TriedCount(arg) ==
    LET sel == IF IsBlank(arg.selector) THEN 0 ELSE 1
        selHit == ~IsBlank(arg.selector) /\ arg.selOk
        dom == IF ~selHit /\ ~IsBlank(arg.instruction) /\ HasTargetText(arg.instruction)
               THEN 1 ELSE 0 IN
    sel + dom

\* C20: attempts is the number of strategies that were tried; a strategy
\* skipped for want of its input, and the vision strategy, are not counted.
C20_AttemptsCountTriedStrategies ==
    (call.fn = "execute_click" /\ call.done) => call.out.attempts = TriedCount(call)

\* The strategies that performed their page operation: those that were tried
\* and not merely skipped for want of their input.
TriedStrategies(out) == {out.ops[k].via : k \in 1..Len(out.ops)}

\* A strategy was tried and failed before the call returned.
SomeTriedFailed(out) == \E k \in 1..Len(out.ops) : ~out.ops[k].ok

\* C21: self_healed is true exactly when the step passed after at least one
\* strategy was tried and failed; it is false when the strategy that
\* succeeded was the first one tried, earlier ones being skipped only.
C21_SelfHealedIffFallbackAfterFailure ==
    (call.fn = "execute_click" /\ call.done)
    => (call.out.selfHealed = (call.out.status = "passed" /\ SomeTriedFailed(call.out)))

\* C22: a failed call has self_healed false and the error 'All strategies
\* failed' listing every strategy that was tried and none that was skipped
\* for want of its input (the vision strategy, which has no input to want,
\* may be listed or not).
C22_AggregateErrorListsTriedStrategies ==
    (call.fn = "execute_click" /\ call.done /\ call.out.status = "failed")
    => LET listed == {call.out.errorListed[k] : k \in 1..Len(call.out.errorListed)} IN
       /\ ~call.out.selfHealed
       /\ call.out.errorPrefix = "All strategies failed"
       /\ TriedStrategies(call.out) \subseteq listed
       /\ listed \subseteq TriedStrategies(call.out) \cup {"vision"}

\* C30: the strategies are invoked in the order selector, dom, vision; when
\* one succeeds it is the last one invoked, its page operation is the only
\* one that succeeded and was performed once, and it is the strategy the
\* result names; when none succeeds all three were invoked.
C30_FixedOrderStopAtFirstSuccess ==
    (call.fn = "execute_click" /\ call.done)
    => LET out == call.out
           n == Len(out.invoked) IN
       /\ n <= Len(Strategies)
       /\ \A k \in 1..n : out.invoked[k] = Strategies[k]
       /\ out.status = "passed"
             => /\ n >= 1
                /\ out.invoked[n] = out.strategy
                /\ Cardinality({k \in 1..Len(out.ops) : out.ops[k].ok}) = 1
                /\ Cardinality({k \in 1..Len(out.ops) :
                                   out.ops[k].via = out.strategy}) = 1
                /\ out.ops[Len(out.ops)] = [via |-> out.strategy, ok |-> TRUE]
       /\ out.status = "failed"
             => /\ n = Len(Strategies)
                /\ \A k \in 1..Len(out.ops) : ~out.ops[k].ok

\* The selector strategy was tried and failed, the DOM strategy succeeded
\* and the vision strategy was not invoked.
C30_Witness ==
    /\ call.fn = "execute_click"
    /\ call.done
    /\ call.out.status = "passed"
    /\ call.out.strategy = "dom"
    /\ call.out.invoked = <<"selector", "dom">>
    /\ Len(call.out.ops) = 2

\* ------------------------------------------------------------ shutdown
\* C23: once the shutdown event of a worker is set, no queue entry becomes
\* pending for that worker's consumer.
C23_NoClaimAfterShutdown ==
    [][\A w \in Workers :
          shutdown[w] => \A e \in 1..Len(queue) : (<<e, w>> \in pel' => <<e, w>> \in pel)]_vars

\* One worker process with its recovery task, which is signalled while it
\* works and while time passes.
NextShutdown ==
    CreateTestOnce \/ RunTestOnce \/ DeleteTest({1}) \/ Tick
        \/ WorkerStep(1) \/ SweepStep(1) \/ HandleShutdown(1)

SpecShutdown == Init /\ [][NextShutdown]_vars

\* main closed the pool or the Redis connection.
Closed(w) == worker[w].dbClosed \/ worker[w].redisClosed

\* C24: when a worker has closed a connection it is past its job loop and
\* its recovery task has ended, and from then on neither takes a step: the
\* process only closes its other connection and exits, and writes no event,
\* no record and no acknowledgement (the API may still delete a run).
C24_ConnectionsClosedLast ==
    /\ [](\A w \in Workers :
             Closed(w) => /\ worker[w].pc \in {"close_redis", "stopped"}
                          /\ sweep[w].pc = "stopped")
    /\ [][\A w \in Workers :
             Closed(w) => /\ sweep'[w] = sweep[w]
                          /\ worker'[w].pc \in {"close_redis", "stopped"}
                          /\ worker'[w].job = worker[w].job
                          /\ events' = events
                          /\ pel' = pel
                          /\ \A r \in RunIds :
                                (db[r].status # "absent" /\ db'[r].status # "absent")
                                => /\ db'[r].status = db[r].status
                                   /\ db'[r].error = db[r].error]_vars

\* The worker closed both connections after a job, and its recovery task was
\* cancelled in the middle of a pass: it had failed the stuck run and not
\* yet appended the run's error event.
C24_Witness ==
    /\ worker[1].dbClosed
    /\ worker[1].redisClosed
    /\ worker[1].job # 0
    /\ db[1].error = "stuck"
    /\ ~\E k \in 1..Len(events[1]) : events[1][k] = Event("error", "stuck")

\* ------------------------------------------------ the queue's functions
\* The clients of enqueue_run, consume_run_job and ack_run_job: op, arg and
\* out are the last call, its argument (a run, a consumer, an entry) and its
\* result (the entry, 0 for none); acked is the entries acknowledged while
\* they were pending, again whether one of them was acknowledged once more,
\* first the entries in the order of their first delivery.
NoQueueCall ==
    [fn |-> "queue", op |-> "none", arg |-> 0, out |-> 0, acked |-> {},
     again |-> FALSE, first |-> << >>]

\* enqueue_run(run_id, test_id): XADD at the end of runs:queue.
EnqueueRunCall ==
    \E r \in RunIds :
        /\ call.fn = "queue"
        /\ Len(queue) < MaxQueue
        /\ queue' = Append(queue, r)
        /\ call' = [call EXCEPT !.op = "enqueue_run", !.arg = r, !.out = Len(queue) + 1]
        /\ UNCHANGED <<api, tests, db, events, delivered, pel, worker, sweep, shutdown,
                       faults, stream>>

\* consume_run_job(consumer_name): the entry XREADGROUP returns becomes
\* pending for the consumer and is returned; None when there is none.
ConsumeRunJobCall ==
    \E w \in Workers :
        /\ call.fn = "queue"
        /\ \/ \E e \in Deliverable :
                  /\ delivered' = IF e > delivered THEN e ELSE delivered
                  /\ pel' = pel \cup {<<e, w>>}
                  /\ call' = [call EXCEPT !.op = "consume_run_job", !.arg = w,
                                          !.out = e, !.first = Append(@, e)]
           \/ /\ Deliverable = {}
              /\ call' = [call EXCEPT !.op = "consume_run_job", !.arg = w, !.out = 0]
              /\ UNCHANGED <<delivered, pel>>
        /\ UNCHANGED <<api, tests, db, events, queue, worker, sweep, shutdown, faults, stream>>

\* ack_run_job(msg_id)
AckRunJobCall ==
    \E e \in 1..Len(queue) :
        /\ call.fn = "queue"
        /\ pel' = Xack(e)
        /\ call' = [call EXCEPT !.op = "ack_run_job", !.arg = e, !.out = 0,
                                !.acked = IF Holders(e) # {} THEN @ \cup {e} ELSE @,
                                !.again = @ \/ e \in call.acked]
        /\ UNCHANGED <<api, tests, db, events, queue, delivered, worker, sweep, shutdown,
                       faults, stream>>

InitQueueApi == InitBase(0) /\ call = NoQueueCall

NextQueueApi == EnqueueRunCall \/ ConsumeRunJobCall \/ AckRunJobCall

SpecQueueApi == InitQueueApi /\ [][NextQueueApi]_vars

\* C25: acknowledging an entry that was acknowledged before changes nothing
\* of the queue, and an acknowledged entry is pending for no consumer ever
\* after.
C25_AckIsIdempotentAndFinal ==
    /\ [][(call'.op = "ack_run_job" /\ call'.arg \in call.acked)
             => (queue' = queue /\ delivered' = delivered /\ pel' = pel)]_vars
    /\ [](\A e \in call.acked : Holders(e) = {})

\* An entry was acknowledged twice and a later claim returned the next entry.
C25_Witness ==
    /\ call.fn = "queue"
    /\ call.again
    /\ call.op = "consume_run_job"
    /\ call.out = 2
    /\ 1 \in call.acked

\* C26: the entries are delivered for the first time in the order they were
\* enqueued, whichever consumers claim them, and a claim when every entry
\* has been delivered returns none and changes nothing of the queue.
C26_DeliveryInEnqueueOrder ==
    /\ [](call.fn = "queue" => \A k \in 1..Len(call.first) : call.first[k] = k)
    /\ [][(call'.op = "consume_run_job" /\ delivered = Len(queue))
             => (call'.out = 0 /\ queue' = queue /\ delivered' = delivered
                    /\ pel' = pel)]_vars

\* Three entries were delivered to two consumers, and the claim after them
\* returned none.
C26_Witness ==
    /\ call.fn = "queue"
    /\ call.first = <<1, 2, 3>>
    /\ call.op = "consume_run_job"
    /\ call.out = 0
    /\ \E e1, e2 \in 1..3 : Holders(e1) # {} /\ Holders(e2) # {} /\ Holders(e1) # Holders(e2)

\* ------------------------------------------- the start of a run's execution
HasStartEvent(log) == \E k \in 1..Len(log) : log[k] = Event("log", "start")

\* C27: a run's log has the start event exactly when its status has left
\* queued: never the event with status queued, never status running
\* without the event.
C27_StartIsAtomic ==
    \A r \in RunIds :
        /\ db[r].status = "queued" => ~HasStartEvent(events[r])
        /\ db[r].status = "running" => HasStartEvent(events[r])

\* ------------------------------------------------- screenshots of steps

\* A step of worker w that ends a pass of the loop: _capture_screenshot
\* returned nothing, or the screenshot's event was appended.
EndsPass(w) ==
    /\ worker[w].pc \in {"screenshot", "shot_event"}
    /\ worker'[w].pc \in {"executing", "page_close"}

\* C28: a step that was executed and whose result was logged is followed by
\* one call of _capture_screenshot; the step's recorded status is the one
\* execute_action returned, and where the loop goes next and the run's error
\* depend on that status alone, whether a screenshot was captured or not;
\* without one only the screenshot event and the screenshots entry are
\* missing. A run without timeout or exception, whose failed step if any
\* returned an error text, ends passed exactly when no step failed (stated
\* of runs that have a row).
C28_ScreenshotIsBestEffort ==
    /\ [](\A w \in Workers :
             worker[w].pc \in {"result_event", "screenshot", "shot_event"}
             => /\ worker[w].results # << >>
                /\ worker[w].results[Len(worker[w].results)]
                      = StepResult(worker[w].i, worker[w].result)
                /\ worker[w].captures
                      = Len(worker[w].results) - (IF worker[w].pc = "shot_event" THEN 0 ELSE 1))
    /\ [][\A w \in Workers :
             /\ (worker[w].pc = "result_event" /\ events'[RunOf(w)] # events[RunOf(w)])
                   => /\ worker'[w].pc = "screenshot"
                      /\ NewEvents(RunOf(w)) = <<Event("log", worker[w].result.status)>>
             /\ worker[w].pc = "screenshot"
                   => /\ worker'[w].captures \in {worker[w].captures, worker[w].captures + 1}
                      /\ worker'[w].pc # "screenshot" => worker'[w].captures = worker[w].captures + 1
                      /\ events' = events
                      /\ worker'[w].shots
                            = (IF worker'[w].pc = "shot_event"
                               THEN Append(worker[w].shots, worker[w].i) ELSE worker[w].shots)
             /\ EndsPass(w)
                   => LET wr == worker[w] IN
                      /\ worker'[w].results = wr.results
                      /\ wr.result.status = "failed"
                            => /\ worker'[w].pc = "page_close"
                               /\ worker'[w].finalError \in {"step", "empty"}
                               /\ worker'[w].failedStep = wr.i
                      /\ wr.result.status = "passed"
                            => /\ worker'[w].finalError \in {wr.finalError, "timeout"}
                               /\ worker'[w].finalError = "timeout" => wr.late
                               /\ worker'[w].pc = "page_close"
                                     => (wr.i + 1 = wr.nsteps \/ wr.late)]_vars
    /\ [](\A w \in Workers :
             (worker[w].pc = "ack" /\ worker[w].path = "valid"
                 /\ worker[w].finalError \in {"none", "step"} /\ HasRow(RunOf(w)))
             => /\ (db[RunOf(w)].status = "passed")
                      = (\A k \in 1..Len(db[RunOf(w)].stepResults) :
                            db[RunOf(w)].stepResults[k].status = "passed")
                /\ Len(db[RunOf(w)].stepResults) = worker[w].captures)

\* A run of two steps ended passed although the capture after its first step
\* failed: it has the second step's screenshot only.
C28_Witness ==
    \E w \in Workers :
        /\ worker[w].pc = "ack"
        /\ db[RunOf(w)].status = "passed"
        /\ Len(db[RunOf(w)].stepResults) = 2
        /\ db[RunOf(w)].screenshots = <<1>>

\* ------------------------------------------- the step result of a click
\* The click and fill steps _validate_step lets through to the step loop:
\* those with a selector that is not blank.
ValidClickCalls == {c \in ClickCalls : ~IsBlank(c.selector)}

\* The calls of the resolver from the step loop: the step's index and the
\* argument of execute_click / execute_fill, a step that was validated.
RecordCalls ==
    {[fn |-> "step_result", i |-> i, arg |-> c, done |-> FALSE, returned |-> NoOutcome,
      out |-> StepResult(0, [status |-> "none"])]
        : i \in 0..(MaxEngineSteps - 1), c \in ValidClickCalls}

\* Lines 129 to 141 of the step loop for a click or fill step: execute_action
\* returns what the resolver returns, and the step's entry of step_results
\* is built.
RecordCall ==
    /\ call.fn = "step_result"
    /\ ~call.done
    /\ LET result == ExecuteClickOrFill(call.arg) IN
       call' = [call EXCEPT !.done = TRUE, !.returned = result,
                            !.out = StepResult(call.i, result)]
    /\ UNCHANGED <<api, tests, db, events, queue, delivered, pel, worker, sweep, shutdown,
                   faults, stream>>

InitRecord == InitBase(0) /\ call \in RecordCalls

SpecRecord == InitRecord /\ [][RecordCall]_vars

\* C29: the recorded result of a click or fill step has the strategy,
\* self_healed and attempts the resolver returned for it.
C29_StepResultCarriesResolverValues ==
    (call.fn = "step_result" /\ call.done)
    => /\ call.out.status = call.returned.status
       /\ call.out.strategy = call.returned.strategy
       /\ call.out.selfHealed = call.returned.selfHealed
       /\ call.out.attempts = call.returned.attempts

\* ----------------------------------------------- Strategy.try_execute
\* What try_execute hands to its caller: None, or the dict of a success, of
\* which strategy and self_healed are kept.
Returned(r) ==
    IF r.hit THEN [none |-> FALSE, strategy |-> r.strategy, selfHealed |-> r.selfHealed]
    ELSE [none |-> TRUE, strategy |-> "none", selfHealed |-> FALSE]

\* The calls of try_execute: a strategy and the step and page of a call of
\* execute_click / execute_fill.
StrategyCalls ==
    {[fn |-> "try_execute", name |-> Strategies[k], arg |-> c, done |-> FALSE,
      out |-> NoResult(FALSE)]
        : k \in 1..Len(Strategies), c \in ClickCalls}

StrategyCall ==
    /\ call.fn = "try_execute"
    /\ ~call.done
    /\ call' = [call EXCEPT !.done = TRUE, !.out = TryExecute(call.name, call.arg)]
    /\ UNCHANGED <<api, tests, db, events, queue, delivered, pel, worker, sweep, shutdown,
                   faults, stream>>

InitStrategy == InitBase(0) /\ call \in StrategyCalls

SpecStrategy == InitStrategy /\ [][StrategyCall]_vars

\* C31: what SelectorStrategy.try_execute returns for a step without a
\* selector differs from what it returns for the same step with a selector
\* on which the page operation raises.
C31_SkippedDiffersFromFailed ==
    (call.fn = "try_execute" /\ call.done /\ call.name = "selector"
        /\ IsBlank(call.arg.selector))
    => Returned(call.out)
          # Returned(TryExecute("selector",
                                [call.arg EXCEPT !.selector = "text", !.selOk = FALSE]))

\* -------------------------------------------------- acknowledgement
\* C32: an entry leaves a consumer's pending list only by the XACK of the
\* worker that holds it, after the call of process_job of the current
\* attempt returned; no other step, and no claim, removes an entry.
C32_AckOnlyAfterSuccess ==
    [][\A w \in Workers : \A e \in 1..Len(queue) :
          (<<e, w>> \in pel /\ <<e, w>> \notin pel')
          => /\ worker[w].job = e
             /\ worker[w].pc = "ack"
             /\ worker[w].raised < worker[w].calls]_vars

\* The entry was acknowledged after process_job raised twice and returned
\* on the third attempt.
C32_Witness ==
    \E w \in Workers :
        /\ DoneWith(w)
        /\ Holders(worker[w].job) = {}
        /\ worker[w].raised = 2
        /\ worker[w].calls = 3

\* ------------------------------------------------------- repetition
\* The number of events e of a log.
CountEvents(log, e) == Cardinality({k \in 1..Len(log) : log[k] = e})

\* C33: a run's log has at most one start event and at most one 'executing'
\* event for each step of the longest definition, whatever the worker
\* retries.
C33_StepsRunAtMostOnce ==
    \A r \in RunIds :
        /\ CountEvents(events[r], Event("log", "start")) <= 1
        /\ CountEvents(events[r], Event("log", "executing")) <= MaxSteps

\* ------------------------------------------------ the terminal status
\* C36: when execute_test has run the steps and returned, the status of a
\* run that has a row is passed exactly when every step of the definition has a result, every
\* result is passed, and no step failure, deadline or exception set
\* error_step.
C36_PassedIffAllStepsPassed ==
    \A w \in Workers :
        (worker[w].pc = "ack" /\ worker[w].path = "valid" /\ HasRow(RunOf(w)))
        => LET run == db[RunOf(w)] IN
           (run.status = "passed")
               = (/\ Len(run.stepResults) = worker[w].nsteps
                  /\ \A k \in 1..Len(run.stepResults) : run.stepResults[k].status = "passed"
                  /\ run.errorStep = -1)

\* ------------------------------------------- streams of finished runs
\* C40: a connection that is open while the run's log holds a terminal event
\* eventually ends, whatever cursor it was opened with.
C40_StreamOfFinishedRunEnds ==
    (stream.pc \in {"check", "read", "yield", "sleep"} /\ HasTerminal(events[StreamRun]))
        ~> (stream.pc = "ended")

\* ------------------------------------------------ sweeps and live runs
\* The recovery's error events of a log.
StuckEvents(log) == CountEvents(log, Event("error", "stuck"))

\* Some live worker is inside execute_test for run r.
Executing(r) ==
    \E w \in Workers : InExecuteTest(w) /\ worker[w].job # 0 /\ RunOf(w) = r

\* C34: while a worker is inside execute_test for a run, no step of a
\* recovery pass sets the run to failed with the stuck error or appends the
\* recovery's error event to its log.
C34_SweepSparesExecutingRuns ==
    [][\A r \in RunIds :
          Executing(r)
          => /\ db'[r].error = "stuck" => db[r].error = "stuck"
             /\ StuckEvents(events'[r]) = StuckEvents(events[r])]_vars

\* ---------------------------------------------------- concurrent sweeps
\* One worker on one job, which may be signalled, and the recovery tasks of
\* two worker processes while time passes; no call to the store or the queue
\* raises.
NextSweeps ==
    \/ CreateTestOnce \/ RunTestOnce \/ DeleteTest({1}) \/ Tick \/ HandleShutdown(1)
    \/ WorkerStep(1) \/ SweepStep(1) \/ SweepStep(2)

SpecSweeps == InitWith(0) /\ [][NextSweeps]_vars

\* C35: a run's log holds at most one error event of the recovery, however
\* many recovery passes found the run stuck.
C35_OneRecoveryEventPerRun ==
    \A r \in RunIds : StuckEvents(events[r]) <= 1

\* ------------------------------------------------- crash after a claim
\* The run has a terminal status and its log a terminal event.
Ended(r) == db[r].status \in TerminalStatus /\ HasTerminal(events[r])

\* The run of a queue entry.
RunOfEntry(e) == queue[e]

\* C37: when the worker that claimed the run's job has died, the run
\* eventually has a terminal status and a terminal event, as long as some
\* worker process is live (and unless the run is deleted with its test).
C37_ClaimedRunEndsAfterCrash ==
    (1 \in Entries /\ \E w \in Holders(1) : worker[w].pc = "crashed")
        ~> (\/ 1 \in Entries /\ (Ended(RunOfEntry(1)) \/ ~HasRow(RunOfEntry(1)))
            \/ ~\E w \in Workers : Live(w))

\* ---------------------------------------------- periodic recovery task
\* The worker process has left its main loop's finally clause behind, or died.
Ending(w) == worker[w].pc \in {"close_db", "close_redis", "stopped", "crashed"}

\* C38: the recovery task of a worker process has ended only if the process
\* was signalled to shut down or is ending; an exception in a pass does not
\* end it.
C38_RecoveryRunsUntilShutdown ==
    \A w \in Workers : sweep[w].pc = "stopped" => (shutdown[w] \/ Ending(w))

\* ------------------------------------------------- cancelled recovery
\* A recovery pass is between its UPDATE of run r and the error event.
BetweenUpdateAndEvent(r) ==
    \E w \in Workers : sweep[w].pc = "event" /\ sweep[w].cur = r

\* C39: with no recovery pass ended by an exception, a run that a pass has
\* set to failed has the pass's error event, or the pass is still between
\* the two writes.
C39_CancelledSweepLeavesNoHalfRecovery ==
    \A r \in RunIds :
        (/\ db[r].error = "stuck"
         /\ StuckEvents(events[r]) = 0
         /\ \A w \in Workers : ~sweep[w].exc)
        => BetweenUpdateAndEvent(r)

====
